---- MODULE Spec2Model ----
(***************************************************************************)
(* Mercurial Player audio engine (src-tauri/src/audio).                    *)
(*                                                                         *)
(*   SpecDecoder  SymphoniaDecoder and its AudioBuffer (decoder.rs)        *)
(*   SpecPrefill  the decoder prefilled and read on files that fail        *)
(*   SpecBuffer   AudioBuffer driven on its own (decoder.rs)               *)
(*   SpecConvert  conversion of decoded buffers to samples (decoder.rs)    *)
(*   SpecNegotiate format negotiation of the exclusive-mode device actor   *)
(*                (wasapi/exclusive.rs)                                    *)
(*   SpecControl  pause, resume, volume and the status queries while other *)
(*                threads hold mutexes of the player (commands.rs)         *)
(*   SpecMode     device switches and the exclusive-mode toggle            *)
(*                (commands.rs, main.rs)                                   *)
(*   SpecEq       the EQ stage of a source while the equalizer is          *)
(*                switched, given presets and reset (playback.rs)          *)
(*   SpecEqCommands the commands of the equalizer and the shared           *)
(*                EqSettings (equalizer/commands.rs)                       *)
(*   SpecVis      VisualizationSource::next: batches, ticks, events and    *)
(*                the locks it shares (playback.rs)                        *)
(*   SpecGen      the generation id and the stop flag under handlers that  *)
(*                run at once (playback.rs)                                *)
(*   SpecRing     the device actor, its command queue and its ring buffer  *)
(*                under Start, Stop, Pause, Resume and SetVolume           *)
(*   SpecOutput   the output side of the device actor: ring buffer, volume *)
(*                and device writes (wasapi/exclusive.rs)                  *)
(*   SpecPipeline the decoder of one playback session: built by a play or  *)
(*                seek command, then read by the decode thread             *)
(*   SpecSource   LockFreeSymphoniaSource: decode thread, channel and the  *)
(*                pull iterator (decoder.rs)                               *)
(*   FairSource   SpecSource with the decode thread scheduled fairly       *)
(*   Spec         exclusive-mode playback: command handlers, decode        *)
(*                workers and the WASAPI device actor (playback.rs,        *)
(*                commands.rs, wasapi/exclusive.rs)                        *)
(*   FairSpec     Spec with every thread scheduled fairly                  *)
(***************************************************************************)
EXTENDS Integers, Sequences, FiniteSets, TLC

(***************************************************************************)
(* Bounds of the model and constants of the program.                       *)
(***************************************************************************)
\* sample rate of the modelled file (an input; scaled so that the buffer holds
\* a handful of samples)
SampleRate == 10
\* decoder.rs:194  let target_channels = 2u16
TargetChannels == 2
\* decoder.rs:193  buffer duration in ms for rates <= 48000
BufferDurationMs == 500
\* decoder.rs:45   refill_threshold_ms: 100
RefillThresholdMs == 100
\* decoder.rs:351  decoded_packets < 50
MaxPacketsPerFill == 50
\* decoder.rs:294  attempts < 200
MaxPrefillAttempts == 200
\* decoder.rs:297  attempts > 10
PrefillErrAttempts == 10
\* length of the short packet streams enumerated as input files
MaxShortLen == 2
\* extra packets of the long input file beyond one fill_buffer budget
LongExtra == 2
\* largest seek time (in frames) a caller passes
MaxSeek == 1
\* audio packets before the failing packet of an input file that fails while
\* the buffer is part full
FailAfter == 4
\* most audio packets at the head of an input file that fails late
MaxLateAudio == 3
\* decoder.rs:193  buffer duration in ms for rates above 48000
BufferDurationHiRateMs == 400
\* samples one AudioBuffer::append call adds at most
MaxAppend == 2
\* samples appended to an AudioBuffer between two clears
MaxStored == 4
\* the refill thresholds set_refill_threshold is given: multiples of
\* ThresholdStepMs, up to MaxThresholdSteps of them
ThresholdStepMs == 50
MaxThresholdSteps == 4
\* most channels of a file or of a decoded buffer
MaxChannels == 8
\* a volume v stands for v / VolScale: 0 is silent, VolScale is 1.0
VolScale == 2
\* samples the ring buffer of a device actor run on its own holds at most
MaxRing == 3
\* most samples one push_samples call on that actor adds
MaxPushed == 2
\* exclusive.rs:356  most frames the device reports as available
MaxFramesAvailable == 2
\* most mutexes of the player that other threads hold while a command runs
MaxHeld == 1
\* bands of the equalizer (EQ_BAND_COUNT, 10 in equalizer/processor.rs:9)
EQ_BAND_COUNT == 2
\* channels of the source the EQ stage reads
EqChannels == 1
\* samples the EQ stage reads per batch (BATCH_SIZE, 64 in playback.rs:92)
BATCH_SIZE == 2
\* batches between two reads of the shared settings (8 in playback.rs:323)
EqUpdateBatches == 2
\* batches one VisualizationSource processes
MaxBatches == 3
\* samples, multipliers and coefficients are in thousandths
One == 1000
\* samples in the visualization buffer at which it is analysed (fft_size,
\* 1024 to 8192 in playback.rs:246-253)
FftSize == 2
\* time between two position events (100 ms in playback.rs:383)
PositionPeriodMs == 2
\* time between two spectrum computations (16 ms in playback.rs:394)
FftPeriodMs == 1
\* the clock stops here
MaxNow == 4
\* samples of the input of a VisualizationSource
MaxVisInput == 3
\* calls of next() on one VisualizationSource
MaxVisCalls == 5
\* sample_rate * channels of the source, in samples per second
VisRate == 3
\* start positions are in 1/PosDen seconds
PosDen == 2
\* the latest start position, in 1/PosDen seconds
MaxStart == 1
\* versions of the shared EQ settings
MaxSettings == 1
\* handlers that run play_track_exclusive at once
MaxGenHandlers == 2
\* play and seek commands in a run
MaxGenCommands == 4
\* capacity of the command channel of the actor run on its own (64 in
\* wasapi/exclusive.rs:61)
RingQueueCap == 2
\* commands sent to that actor in a run
MaxRingSent == 5
\* samples pushed to that actor in a run
MaxRingPushed == 4
\* sinks and device handles made since the application started
MaxMade == 4
\* most formats, among those probed, that the output device supports
MaxSupported == 2
\* most frames of one decoded buffer
MaxFrames == 2

\* samples the decoder behind a LockFreeSymphoniaSource yields in all
SourceLen == 3
\* decoder.rs:84   samples per batch of the decode thread (16384, scaled)
BatchSize == 2
\* decoder.rs:103  samples one refill of the consumer takes (16384, scaled)
ChunkLimit == 2

\* commands issued in exclusive mode in all
MaxCommands == 2
\* play_track / seek_track commands issued in exclusive mode (each one starts
\* a playback session and a decode worker)
MaxGen == 2
\* set_audio_device commands issued
MaxSwitch == 1
\* pause / resume / set_volume / status commands issued
MaxCtl == 1
\* shared-mode play / seek / device switch commands issued
MaxShared == 2
\* samples the source of one playback session yields
StreamLen == 4
\* playback.rs:731  samples_needed of one worker chunk (chunk_size * src_ch,
\* scaled)
ChunkSamples == 2
\* playback.rs:796  max_buffer, the high-water mark of the ring buffer
\* (target_sr * target_ch * 2, scaled)
HighWater == 2
\* wasapi/exclusive.rs:61  capacity of the command channel (64, scaled)
CmdQueueCap == 2
\* wasapi/exclusive.rs:357  largest samples_needed of one device write
MaxDeviceSamples == 2

Min(a, b) == IF a < b THEN a ELSE b

(***************************************************************************)
(* State                                                                   *)
(***************************************************************************)
\* SymphoniaDecoder (decoder.rs:161-175)
VARIABLES
    dec,        \* the SymphoniaDecoder: state, buffer, format reader cursor
    stream,     \* the packets of the file at `path`, in container order
    lastOp,     \* the last call made on the decoder
    lastRet,    \* what that call returned
    stPath,     \* the values `state` took during that call, in order
    prevOp,     \* the call made before the last one
    prevFrom,   \* the state that earlier call was made in
    start_pos,  \* where the pipeline built around the decoder counts its
                \* playback position from (in frames)
    buffer,     \* an AudioBuffer (decoder.rs:34-41) driven on its own
    bufLog,     \* the last call made on `buffer` and what it returned; the
                \* samples appended and returned since new() or clear()
    conv,       \* the channel fields of a decoder (source_channels,
                \* target_channels, channel_map), the buffer it decoded last
                \* and its scratch_buffer after the conversion
    fillCalls,  \* the calls of fill_buffer the last call made, if it was a
                \* prefill_buffer
    device,     \* an output device as handle_initialize of a device actor
                \* finds it (wasapi/exclusive.rs:295-431): its mix format,
                \* the formats it supports, and what the actor made of it
    app,        \* PlayerState as the control and status commands see it
                \* (lib.rs:36-66): the mode, the device handle and its state,
                \* the sink, the volumes; the last command, the mutexes other
                \* threads held while it ran, what it returned and which
                \* mutexes it had to wait for
    mode,       \* PlayerState as set_audio_device and toggle_exclusive_mode
                \* see it (lib.rs:36-66): the mode flag, the device handle,
                \* the sink, the device name, the loaded path; the persisted
                \* configuration; the last command, its arguments, what it
                \* returned and the player as it was before it
    eq,         \* the equalizer: the shared EqSettings of GlobalEqualizer
                \* (equalizer/processor.rs:236-275), and the EQ stage of one
                \* VisualizationSource (playback.rs:147-212, 304-335): the
                \* BatchEqProcessor with its cached settings, coefficients
                \* and filter states, the update counter, the last batch
                \* read and the batch made of it; the last command
    vis,        \* one VisualizationSource (playback.rs:214-239): the input left,
                \* the batch cursor, the visualization buffer, the sample count,
                \* the tick times and the clock, eof_sent; the shared spectrum
                \* snapshot and EQ settings and the cached copy; the events
                \* emitted; the last call of next(): the locks others held, what
                \* it returned, the updates it skipped
    gen,        \* the session generation (lib.rs:60-62): the stop flag, the
                \* generation id, the handlers in play_track_exclusive and the
                \* ids the workers were spawned with
    ring,       \* a device actor under the control commands
                \* (wasapi/exclusive.rs:218-286): the command queue, the ring
                \* buffer, is_playing and the state; the front of the ring
                \* buffer when a Pause took effect and the first sample
                \* written after the Resume
    output      \* the output side of a device actor on its own
                \* (wasapi/exclusive.rs:341-377): the ring buffer, the
                \* actor's current_volume and is_playing, the shared state,
                \* and the last device write

\* the decoder and the components that are also run on their own
cmpVars == <<output, app, mode, eq, vis, gen, ring>>

decVars == <<dec, stream, lastOp, lastRet, stPath, prevOp, prevFrom, start_pos,
             buffer, bufLog, conv, fillCalls, device, cmpVars>>

\* LockFreeSymphoniaSource and its decode thread (decoder.rs:60-92)
VARIABLES
    srcDecoder,     \* samples the moved-in decoder has yielded so far
    batch,          \* the decode thread's batch
    batchPos,       \* samples of the batch already sent
    threadPc,       \* decode thread: "loop" | "decode" | "send" | "exited"
    channel,        \* crossbeam unbounded channel, sender -> receiver
    stop_flag,      \* Arc<AtomicBool>
    chunk_buffer,   \* consumer side
    chunk_pos,
    count,          \* samples received by the running refill
    srcPc,          \* consumer: "idle" | "refill" | "dropped"
    yielded,        \* every sample next() returned, in order
    nextRet         \* what the last completed next() returned

srcVars == <<srcDecoder, batch, batchPos, threadPc, channel, stop_flag,
             chunk_buffer, chunk_pos, count, srcPc, yielded, nextRet>>

\* Exclusive-mode playback.
VARIABLES
    player,       \* PlayerState (lib.rs): decode_thread_stop, decode_thread_id,
                  \* exclusive_mode, current_path (Some?), wasapi_player
                  \* (0 = None, h = Some(handle h))
    wasapi_lock,  \* holder of the wasapi_player mutex: "free", "cmd" or a worker
    handle,       \* the live WasapiExclusivePlayback: command and response
                  \* channels, state, sample_buffer, is_running
    actor,        \* audio_thread_main of the live handle: pc, audio_client,
                  \* is_playing
    cmd,          \* the thread that runs the Tauri command handlers
    worker,       \* decode_and_push_to_wasapi threads, by my_id
    log,          \* what was last pushed, sent, emitted and written; write is
                  \* "failed" from a failed device write of the live actor
                  \* until that actor takes a Start or Resume off its queue
                  \* ("restarted"), "ok" otherwise
    budget        \* commands issued so far

sysVars == <<player, wasapi_lock, handle, actor, cmd, worker, log, budget>>

vars == <<decVars, srcVars, sysVars>>

(***************************************************************************)
(* SymphoniaDecoder (decoder.rs)                                           *)
(***************************************************************************)

\* DecoderState (decoder.rs:21-27); the Error payload (a message) is dropped
DecoderState == {"Uninitialized", "Ready", "EndOfStream", "Error"}

\* What the demuxer and codec make of one packet of the file:
\*   audio  decodes to one frame of a handled sample format
\*   empty  decodes, but convert_audio_buffer appends nothing (a zero-frame
\*          buffer, or a sample format outside F32/S16/U8/S32/S24)
\*   other  packet of another track            (decoder.rs:358)
\*   bad    Error::DecodeError, packet skipped (decoder.rs:367)
\*   reset  next_packet: Error::ResetRequired  (decoder.rs:354)
\*   deof   decode: IoError UnexpectedEof      (decoder.rs:366)
\*   ioerr  next_packet: any other error       (decoder.rs:356)
\*   fatal  decode: any other error            (decoder.rs:368)
PacketKind == {"audio", "empty", "other", "bad", "reset", "deof", "ioerr", "fatal"}

RECURSIVE SeqsUpTo(_, _)
SeqsUpTo(S, n) ==
    IF n = 0 THEN {<< >>}
    ELSE LET shorter == SeqsUpTo(S, n - 1)
         IN  shorter \cup {Append(s, x) : s \in {t \in shorter : Len(t) = n - 1}, x \in S}

LongLen == MaxPacketsPerFill + LongExtra

\* the input files: every short stream, a long all-audio file and a long file
\* of a sample format convert_audio_buffer does not handle
Streams ==
    SeqsUpTo(PacketKind, MaxShortLen)
        \cup {[i \in 1..LongLen |-> "audio"], [i \in 1..LongLen |-> "empty"]}

\* input files that fail while the buffer is part full: FailAfter audio
\* packets, then a packet that cannot be read or cannot be decoded
FailingStreams ==
    {[i \in 1..(FailAfter + 1) |-> IF i <= FailAfter THEN "audio" ELSE e] :
        e \in {"ioerr", "fatal"}}

\* input files that fail late in a prefill: a few audio packets, then packets
\* that decode to nothing until more than PrefillErrAttempts calls of
\* fill_buffer are spent, then a packet that cannot be read
LateErrorLen == MaxPacketsPerFill * (PrefillErrAttempts + 1) + 1
LateErrorStreams ==
    {[i \in 1..LateErrorLen |->
        IF i <= n THEN "audio" ELSE IF i < LateErrorLen THEN "empty" ELSE "ioerr"] :
        n \in 1..MaxLateAudio}

\* calculate_buffer_size (decoder.rs:30-32)
calculate_buffer_size(sample_rate, channels, duration_ms) ==
    (sample_rate * duration_ms * channels) \div 1000

Capacity == calculate_buffer_size(SampleRate, TargetChannels, BufferDurationMs)

\* AudioBuffer (decoder.rs:43-58), on the decoder record d
is_empty(d) == d.position >= Len(d.samples)
remaining(d) == Len(d.samples) - d.position
\* needs_refill with `<=` for `<`
AudioBuffer_needs_refill_Inclusive(b) ==
    remaining(b) * 1000 <= b.sample_rate * b.channels * b.refill_threshold_ms
\* AudioBuffer::needs_refill (decoder.rs:54-56)
AudioBuffer_needs_refill(b) ==
    remaining(b) * 1000 < b.sample_rate * b.channels * b.refill_threshold_ms
\* the same on the decoder record d, whose buffer is built at decoder.rs:198
\* and has the threshold of AudioBuffer::new
needs_refill(d) ==
    AudioBuffer_needs_refill([samples |-> d.samples, position |-> d.position,
                              sample_rate |-> SampleRate, channels |-> TargetChannels,
                              refill_threshold_ms |-> RefillThresholdMs])
BufClear(d) == [d EXCEPT !.samples = << >>, !.position = 0]
BufAppend(d, s) == [d EXCEPT !.samples = @ \o s]
\* next that reads the sample but leaves the cursor where it was
BufNext_CursorKept(b) ==
    IF b.position < Len(b.samples)
    THEN [b |-> b, ret |-> <<b.samples[b.position + 1]>>]
    ELSE [b |-> b, ret |-> << >>]
\* AudioBuffer::next (decoder.rs:48-50); an Option is a sequence of length <= 1
BufNext(b) ==
    IF b.position < Len(b.samples)
    THEN [b |-> [b EXCEPT !.position = @ + 1], ret |-> <<b.samples[b.position + 1]>>]
    ELSE [b |-> b, ret |-> << >>]
\* AudioBuffer::new (decoder.rs:44-46)
AudioBuffer_new(capacity, sample_rate, channels) ==
    [samples |-> << >>, position |-> 0, capacity |-> capacity,
     sample_rate |-> sample_rate, channels |-> channels,
     refill_threshold_ms |-> RefillThresholdMs]
\* AudioBuffer::set_refill_threshold (decoder.rs:57)
set_refill_threshold(b, threshold_ms) == [b EXCEPT !.refill_threshold_ms = threshold_ms]

\* create_channel_mapping (decoder.rs:201-207): is the mapping Some?
create_channel_mapping(channels) == channels \notin {1, 2}

\* copy_planes_with_downmix (decoder.rs:409-438): the samples pushed to `output`,
\* each named by its frame and by what it is, the downmixed left or right
\* (plane 0) or the converted sample of plane `plane`
copy_planes_with_downmix(frames, src_ch, needs_downmix) ==
    IF needs_downmix /\ src_ch > 2
    THEN [k \in 1..(2 * frames) |->
            [frame |-> (k - 1) \div 2, plane |-> 0,
             out |-> IF (k - 1) % 2 = 0 THEN "left" ELSE "right"]]
    ELSE [k \in 1..(frames * src_ch) |->
            [frame |-> (k - 1) \div src_ch, plane |-> (k - 1) % src_ch, out |-> "plane"]]

\* convert_audio_buffer (decoder.rs:374-406) on a buffer of `frames` frames and
\* `channels` planes; handled: its sample format is one of F32, S16, U8, S32, S24
convert_audio_buffer_of(frames, channels, handled, channel_map, src_channels) ==
    LET needs_downmix == channel_map /\ src_channels > 2
    IN  IF handled THEN copy_planes_with_downmix(frames, channels, needs_downmix)
        ELSE << >>

\* the samples one audio packet of the modelled file decodes to: one frame of
\* a stereo file, each sample tagged with the packet it came from
convert_audio_buffer(p) ==
    [k \in 1..Len(convert_audio_buffer_of(1, TargetChannels, TRUE,
                                          create_channel_mapping(TargetChannels),
                                          TargetChannels)) |-> p]

\* frames the container holds before packet position p (p packets consumed)
RECURSIVE FramesBefore(_)
FramesBefore(p) ==
    IF p = 0 THEN 0
    ELSE FramesBefore(p - 1) + (IF stream[p] \in {"audio", "empty"} THEN 1 ELSE 0)

\* format.seek(Accurate, ts): the reader cursor that decodes frame ts next
SeekCursor(ts) ==
    IF \E p \in 0..Len(stream) : FramesBefore(p) = ts
    THEN CHOOSE p \in 0..Len(stream) :
            /\ FramesBefore(p) = ts
            /\ \A q \in 0..Len(stream) : FramesBefore(q) = ts => p <= q
    ELSE Len(stream)
ts_in_range(ts) == ts <= FramesBefore(Len(stream))

\* initialize_decoder (decoder.rs:322-340); openOk: File::open, probe and codec
\* creation succeed; seekOk: the container seek to current_sample succeeds
initialize_decoder(d, openOk, seekOk) ==
    IF ~openOk THEN [d |-> d, ok |-> FALSE]
    ELSE LET reseek == d.current_sample > 0
             hit == reseek /\ seekOk /\ ts_in_range(d.current_sample)
         IN  [d |-> [d EXCEPT !.format = TRUE,
                              !.pkt = IF hit THEN SeekCursor(d.current_sample) ELSE 0,
                              !.current_sample = IF reseek /\ ~hit THEN 0 ELSE @,
                              !.state = "Ready"],
              ok |-> TRUE]

\* the packet loop of fill_buffer (decoder.rs:351-370)
RECURSIVE FillLoop(_, _)
FillLoop(d, decoded_packets) ==
    IF ~(remaining(d) < (Capacity * 80) \div 100 /\ decoded_packets < MaxPacketsPerFill)
    THEN [d |-> d, ok |-> TRUE]
    ELSE IF d.pkt >= Len(stream)
    THEN [d |-> [d EXCEPT !.state = "EndOfStream"], ok |-> TRUE]
    ELSE LET k == stream[d.pkt + 1]
             d1 == [d EXCEPT !.pkt = @ + 1]
         IN  CASE k = "reset" -> FillLoop(d1, decoded_packets)
               [] k = "ioerr" -> [d |-> [d1 EXCEPT !.state = "Error"], ok |-> FALSE]
               [] k = "other" -> FillLoop(d1, decoded_packets)
               [] k = "audio" ->
                    FillLoop(BufAppend(d1, convert_audio_buffer(d.pkt + 1)),
                             decoded_packets + 1)
               [] k = "empty" -> FillLoop(d1, decoded_packets + 1)
               [] k = "deof" -> [d |-> [d1 EXCEPT !.state = "EndOfStream"], ok |-> TRUE]
               [] k = "bad" -> FillLoop(d1, decoded_packets)
               [] k = "fatal" -> [d |-> [d1 EXCEPT !.state = "Error"], ok |-> FALSE]

\* fill_buffer without its early return in Error and EndOfStream
FillOpened_NoEarlyReturn(d) == FillLoop(d, 0)

\* what fill_buffer does once the decoder is open (decoder.rs:344-371)
FillOpened(d) ==
    IF d.state \in {"Error", "EndOfStream"} THEN [d |-> d, ok |-> TRUE]
    ELSE FillLoop(d, 0)

\* fill_buffer (decoder.rs:342-372); `mid` is the state after the lazy open
fill_buffer(d, openOk, seekOk) ==
    LET i == IF d.state = "Uninitialized"
             THEN initialize_decoder(d, openOk, seekOk)
             ELSE [d |-> d, ok |-> TRUE]
    IN  IF ~i.ok THEN [d |-> d, ok |-> FALSE, mid |-> d.state]
        ELSE LET r == FillOpened(i.d)
             IN  [d |-> r.d, ok |-> r.ok, mid |-> i.d.state]

\* the attempt loop, giving up at the first fill error whatever is buffered
RECURSIVE PrefillLoop_ErrIsFinal(_, _)
PrefillLoop_ErrIsFinal(d, attempts) ==
    IF ~(remaining(d) < (Capacity * 95) \div 100 /\ attempts < MaxPrefillAttempts)
    THEN [d |-> d, ok |-> TRUE, calls |-> attempts]
    ELSE LET r == FillOpened(d)
         IN  IF ~r.ok /\ r.d.state = "EndOfStream"
             THEN [d |-> r.d, ok |-> TRUE, calls |-> attempts + 1]
             ELSE IF ~r.ok THEN [d |-> r.d, ok |-> FALSE, calls |-> attempts + 1]
             ELSE IF r.ok /\ r.d = d
             THEN [d |-> d, ok |-> TRUE, calls |-> MaxPrefillAttempts]
             ELSE PrefillLoop_ErrIsFinal(r.d, attempts + 1)

\* the attempt loop of prefill_buffer (decoder.rs:294-302); `calls` counts its
\* calls of fill_buffer
RECURSIVE PrefillLoop(_, _)
PrefillLoop(d, attempts) ==
    IF ~(remaining(d) < (Capacity * 95) \div 100 /\ attempts < MaxPrefillAttempts)
    THEN [d |-> d, ok |-> TRUE, calls |-> attempts]
    ELSE LET r == FillOpened(d)
         IN  IF ~r.ok /\ r.d.state = "EndOfStream"
             THEN [d |-> r.d, ok |-> TRUE, calls |-> attempts + 1]
             ELSE IF ~r.ok /\ attempts > PrefillErrAttempts
                     /\ remaining(r.d) < (Capacity * 50) \div 100
             THEN [d |-> r.d, ok |-> FALSE, calls |-> attempts + 1]
             \* a fill that changed nothing changes nothing in the attempts
             \* left: the loop runs until its budget is spent
             ELSE IF r.ok /\ r.d = d
             THEN [d |-> d, ok |-> TRUE, calls |-> MaxPrefillAttempts]
             ELSE PrefillLoop(r.d, attempts + 1)

\* prefill_buffer (decoder.rs:290-307)
prefill_buffer(d, openOk, seekOk) ==
    LET i == IF d.state = "Uninitialized"
             THEN initialize_decoder(d, openOk, seekOk)
             ELSE [d |-> d, ok |-> TRUE]
    IN  IF ~i.ok THEN [d |-> d, ok |-> FALSE, mid |-> d.state, calls |-> 0]
        ELSE LET r == PrefillLoop(i.d, 0)
             IN  [d |-> r.d,
                  ok |-> r.ok /\ ~(remaining(r.d) < (Capacity * 50) \div 100),
                  mid |-> i.d.state, calls |-> r.calls]

\* seek that repositions the reader but forgets to reset `state`
seek_StateKept(d, target_ts, seekOk) ==
    LET d1 == BufClear([d EXCEPT !.current_sample = target_ts])
    IN  IF d.format
        THEN IF seekOk /\ ts_in_range(target_ts)
             THEN [d |-> [d1 EXCEPT !.pkt = SeekCursor(target_ts)], ok |-> TRUE]
             ELSE [d |-> [d1 EXCEPT !.current_sample = 0, !.state = "Uninitialized"],
                   ok |-> FALSE]
        ELSE [d |-> [d1 EXCEPT !.state = "Uninitialized"], ok |-> TRUE]

\* seek that reports a failed container seek but leaves `state` as it was
seek_FailureKeepsState(d, target_ts, seekOk) ==
    LET d1 == BufClear([d EXCEPT !.current_sample = target_ts])
    IN  IF d.format
        THEN IF seekOk /\ ts_in_range(target_ts)
             THEN [d |-> [d1 EXCEPT !.pkt = SeekCursor(target_ts), !.state = "Ready"],
                   ok |-> TRUE]
             ELSE [d |-> [d1 EXCEPT !.current_sample = 0], ok |-> FALSE]
        ELSE [d |-> [d1 EXCEPT !.state = "Uninitialized"], ok |-> TRUE]

\* seek (decoder.rs:309-320); time is given in frames (time * sample_rate);
\* seekOk: format.seek succeeds
seek(d, target_ts, seekOk) ==
    LET d1 == BufClear([d EXCEPT !.current_sample = target_ts])
    IN  IF d.format
        THEN IF seekOk /\ ts_in_range(target_ts)
             THEN [d |-> [d1 EXCEPT !.pkt = SeekCursor(target_ts), !.state = "Ready"],
                   ok |-> TRUE]
             ELSE [d |-> [d1 EXCEPT !.current_sample = 0, !.state = "Uninitialized"],
                   ok |-> FALSE]
        ELSE [d |-> [d1 EXCEPT !.state = "Uninitialized"], ok |-> TRUE]

\* Iterator::next for SymphoniaDecoder (decoder.rs:443-450)
DecoderNext(d, openOk, seekOk) ==
    LET refill == is_empty(d) \/ needs_refill(d)
        f == IF refill THEN fill_buffer(d, openOk, seekOk)
             ELSE [d |-> d, ok |-> TRUE, mid |-> d.state]
    IN  IF refill /\ ~f.ok /\ is_empty(f.d)
        THEN [d |-> f.d, ret |-> "None", mid |-> f.mid]
        ELSE IF f.d.position < Len(f.d.samples)
        THEN [d |-> [f.d EXCEPT !.position = @ + 1, !.current_sample = @ + 1],
              ret |-> "Some", mid |-> f.mid]
        ELSE [d |-> f.d, ret |-> "None", mid |-> f.mid]

\* the states one call went through: before, after the lazy open, after
StatePath(before, mid, after) ==
    LET a == IF mid = before THEN <<before>> ELSE <<before, mid>>
    IN  IF after = a[Len(a)] THEN a ELSE Append(a, after)

\* the channel fields new_with_buffer_duration sets for a file of
\* `source_channels` channels (decoder.rs:191-198); nothing decoded yet
Channels(source_channels) ==
    [source_channels |-> source_channels, target_channels |-> TargetChannels,
     channel_map |-> create_channel_mapping(source_channels),
     decoded |-> FALSE, frames |-> 0, channels |-> 0, scratch_buffer |-> << >>]

\* no device looked at yet
NoDevice ==
    [default_sample_rate |-> 0, default_channels |-> 0, supported |-> {},
     found_format |-> << >>, responses |-> << >>, audio_client |-> FALSE]

\* nothing called on the AudioBuffer yet
NewLog ==
    [op |-> "new", ret |-> << >>, refill |-> FALSE, appended |-> 0, returned |-> 0,
     none |-> FALSE, noneReturned |-> 0, noneAppended |-> 0]

\* WasapiExclusivePlayback::new (exclusive.rs:60-89) and the locals of
\* audio_thread_main (207-216): empty ring buffer, volume 1.0, not playing
NewOutput ==
    [sample_buffer |-> << >>, current_volume |-> VolScale, is_playing |-> FALSE,
     current_channels |-> 2, state |-> "Uninitialized", wrote |-> FALSE, frames_available |-> 0,
     output_samples |-> << >>, before |-> << >>, after |-> << >>,
     volume_before |-> VolScale]

\* main.rs:58-99 with exclusive mode off in the configuration: shared mode,
\* no device handle, volume 1.0
NewApp ==
    [exclusive_mode |-> FALSE, wasapi_player |-> FALSE,
     wasapi_state |-> "Uninitialized", wasapi_volume |-> VolScale,
     sink_paused |-> FALSE, sink_volume |-> VolScale,
     target_volume |-> VolScale,
     op |-> "main", volume |-> VolScale, held |-> {}, ret |-> "Ok",
     waited |-> {}]

\* the output devices of the machine; the first is the default device
Devices == {"A", "B"}

\* main.rs:58-99 with exclusive mode off in the configuration: shared mode on
\* the default device, the first sink, no device handle, nothing loaded
NewMode ==
    [exclusive_mode |-> FALSE, wasapi_player |-> 0, sink |-> 1,
     current_device_name |-> "A", current_path |-> FALSE, config |-> FALSE,
     made |-> 1, op |-> "main", ret |-> "Ok", enabled |-> FALSE,
     io |-> <<TRUE, TRUE>>, before |-> <<FALSE, 0, 1, "A">>]

\* EqSettings::default (equalizer/processor.rs:113-117): disabled, flat
DefaultEqSettings ==
    [enabled |-> FALSE, gains |-> [i \in 1..EQ_BAND_COUNT |-> 0], preamp |-> 0]

\* BiquadCoefficients::default (equalizer/processor.rs:72-76): the unit filter
DefaultCoefficients == [b0 |-> One, b1 |-> 0, b2 |-> 0, a1 |-> 0, a2 |-> 0]

\* BiquadState::default (equalizer/processor.rs:93-99)
DefaultBiquadState == [x1 |-> 0, x2 |-> 0, y1 |-> 0, y2 |-> 0]

\* BatchEqProcessor::new (playback.rs:158-167) inside VisualizationSource::new
\* (playback.rs:259-285), on the settings GlobalEqualizer::new makes
\* (equalizer/processor.rs:241-243)
NewEq ==
    [settings |-> DefaultEqSettings,
     cached_enabled |-> FALSE, cached_preamp_multiplier |-> One,
     coefficients |-> [i \in 1..EQ_BAND_COUNT |-> DefaultCoefficients],
     states |-> [i \in 1..EQ_BAND_COUNT |->
                    [c \in 1..EqChannels |-> DefaultBiquadState]],
     eq_update_counter |-> 0,
     pending_samples |-> << >>, pending_processed |-> << >>,
     batches |-> 0, enabled_at_refill |-> FALSE, refreshed |-> FALSE,
     op |-> "new", ret |-> "Ok"]

\* VisualizationSource::new (playback.rs:259-285) on an empty input, at a
\* time at which the first ticks are due (the tick times start at 0, 266-267)
NewVis ==
    [input_left |-> 0, pending_len |-> 0, pending_index |-> 0,
     buffer_len |-> 0, samples_played |-> 0, eof_sent |-> FALSE,
     last_fft_time |-> 0, last_position_emit_time |-> 0,
     now |-> PositionPeriodMs, spectrum_data |-> 0, prev_spectrum |-> 0,
     eq_update_counter |-> 0, settings |-> 0, cached |-> 0,
     ended |-> 0, nones |-> 0, position |-> 0, positions |-> 0, monotone |-> TRUE,
     started |-> 0, start |-> 0, calls |-> 0,
     held |-> {}, waited |-> {}, skipped |-> {}, ret |-> "new",
     was |-> <<0, 0, 0>>]

\* main.rs:102-103  the flag is clear, the id is 0, no handler runs
NewGen ==
    [decode_thread_stop |-> FALSE, decode_thread_id |-> 0, commands |-> 0,
     handler |-> [t \in 1..MaxGenHandlers |->
                     [pc |-> "idle", new_thread_id |-> 0, loaded |-> 0]],
     spawned |-> << >>]

\* exclusive.rs:60-101, 207-216  a handle after initialize(): the device is
\* open, the queue and the ring buffer are empty, the state is Stopped
NewRing ==
    [command_q |-> << >>, sample_buffer |-> << >>, is_playing |-> FALSE,
     audio_client |-> TRUE, state |-> "Stopped", pushed |-> 0, sent |-> 0,
     front_at_pause |-> 0, resumed |-> FALSE, first_after_resume |-> 0,
     expected |-> 0, checked |-> FALSE]

\* the components that are run on their own, as constructed
CmpStart ==
    /\ output = NewOutput
    /\ app = NewApp
    /\ mode = NewMode
    /\ eq = NewEq
    /\ vis = NewVis
    /\ gen = NewGen
    /\ ring = NewRing

\* SymphoniaDecoder::new_with_buffer_duration (decoder.rs:180-199)
DecStart ==
    /\ fillCalls = 0
    /\ dec = [state |-> "Uninitialized", samples |-> << >>, position |-> 0,
              format |-> FALSE, pkt |-> 0, current_sample |-> 0]
    /\ lastOp = "new"
    /\ lastRet = "Ok"
    /\ stPath = <<"Uninitialized">>
    /\ prevOp = "none"
    /\ prevFrom = "Uninitialized"
    /\ start_pos = 0
    /\ buffer = AudioBuffer_new(Capacity, SampleRate, TargetChannels)
    /\ bufLog = NewLog
    /\ conv = Channels(TargetChannels)
    /\ device = NoDevice
    /\ CmpStart

\* a decoder built on one of the input files
DecInit == stream \in Streams /\ DecStart

\* bookkeeping of a call: what it was, what it returned, the states it crossed
Called(op, ret, path) ==
    /\ lastOp' = op
    /\ lastRet' = ret
    /\ stPath' = path
    /\ prevOp' = lastOp
    /\ prevFrom' = stPath[1]
    /\ UNCHANGED <<stream, buffer, bufLog, conv, device, cmpVars, srcVars,
                   sysVars>>

\* the decoder as new_with_buffer_duration leaves it (decoder.rs:198)
NewDecoder ==
    [state |-> "Uninitialized", samples |-> << >>, position |-> 0,
     format |-> FALSE, pkt |-> 0, current_sample |-> 0]

\* what play_track_exclusive (playback.rs:546-551), play_track_shared
\* (playback.rs:489-495) and seek_track_shared (playback.rs:913-918) do with
\* the decoder they build: seek to `position` if there is one, prefill, and
\* hand it to LockFreeSymphoniaSource::new, which prefills again
\* (decoder.rs:77).  `propagate` is the `?` of seek_track_shared on the
\* result of seek; the results of both prefills are dropped (`let _ =`).
BuildSource(some, t, propagate, o1, s1, o2, s2) ==
    LET sk == IF some THEN seek(NewDecoder, t, TRUE)
              ELSE [d |-> NewDecoder, ok |-> TRUE]
        p1 == prefill_buffer(sk.d, o1, s1)
        p2 == prefill_buffer(p1.d, o2, s2)
    IN  IF propagate /\ ~sk.ok THEN [d |-> sk.d, ok |-> FALSE, start |-> 0]
        ELSE [d |-> p2.d, ok |-> TRUE, start |-> IF some THEN t ELSE 0]

\* play_track (commands.rs:42-48) and, in exclusive mode, seek_track
\* (commands.rs:144), seen from the decoder of the session they start
DecPlayTrack ==
    \E some, o1, s1, o2, s2 \in BOOLEAN, t \in 0..MaxSeek :
        LET r == BuildSource(some, t, FALSE, o1, s1, o2, s2)
        IN  /\ dec' = r.d
            /\ start_pos' = r.start
            /\ fillCalls' = 0
            /\ Called("play_track", IF r.ok THEN "Ok" ELSE "Err",
                       <<"Uninitialized", r.d.state>>)

\* seek_track in shared mode (commands.rs:146, playback.rs:910-937)
DecSeekTrackShared ==
    \E o1, s1, o2, s2 \in BOOLEAN, t \in 0..MaxSeek :
        LET r == BuildSource(TRUE, t, TRUE, o1, s1, o2, s2)
        IN  /\ dec' = r.d
            /\ start_pos' = r.start
            /\ fillCalls' = 0
            /\ Called("seek_track", IF r.ok THEN "Ok" ELSE "Err",
                       <<"Uninitialized", r.d.state>>)

DecPrefill ==
    \E openOk, seekOk \in BOOLEAN :
        LET r == prefill_buffer(dec, openOk, seekOk)
        IN  /\ dec' = r.d
            /\ Called("prefill", IF r.ok THEN "Ok" ELSE "Err",
                      StatePath(dec.state, r.mid, r.d.state))
            /\ fillCalls' = r.calls
            /\ UNCHANGED start_pos

DecFill ==
    \E openOk, seekOk \in BOOLEAN :
        LET r == fill_buffer(dec, openOk, seekOk)
        IN  /\ dec' = r.d
            /\ Called("fill", IF r.ok THEN "Ok" ELSE "Err",
                      StatePath(dec.state, r.mid, r.d.state))
            /\ fillCalls' = 0
            /\ UNCHANGED start_pos

DecNext ==
    \E openOk, seekOk \in BOOLEAN :
        LET r == DecoderNext(dec, openOk, seekOk)
        IN  /\ dec' = r.d
            /\ Called("next", r.ret, StatePath(dec.state, r.mid, r.d.state))
            /\ fillCalls' = 0
            /\ UNCHANGED start_pos

DecSeek ==
    \E t \in 0..MaxSeek, seekOk \in BOOLEAN :
        LET r == seek(dec, t, seekOk)
        IN  /\ dec' = r.d
            /\ Called(IF t = 0 THEN "seek0" ELSE "seek", IF r.ok THEN "Ok" ELSE "Err",
                      <<dec.state, r.d.state>>)
            /\ fillCalls' = 0
            /\ UNCHANGED start_pos

DecNextStep == DecPrefill \/ DecFill \/ DecNext \/ DecSeek

\* a decoder that is prefilled, refilled and read, on files that fail early,
\* late or not at all
PrefillStep == DecPrefill \/ DecFill \/ DecNext

\* the decoder of a playback session: built by a command, then read by the
\* decode thread of its LockFreeSymphoniaSource (decoder.rs:84)
PipelineStep == DecPlayTrack \/ DecSeekTrackShared \/ DecNext

(***************************************************************************)
(* AudioBuffer on its own (decoder.rs:34-58)                               *)
(***************************************************************************)

\* the sample rates of the files a buffer is built for
SampleRates == {SampleRate, SampleRate + 1}
\* the thresholds adjust_buffer_settings passes to set_refill_threshold
Thresholds == {k * ThresholdStepMs : k \in 0..MaxThresholdSteps}

BufOnly ==
    UNCHANGED <<dec, stream, lastOp, lastRet, stPath, prevOp, prevFrom, start_pos,
                conv, fillCalls, device, cmpVars, srcVars, sysVars>>

\* AudioBuffer::new for a file of some sample rate (decoder.rs:193-198)
AbNew ==
    \E r \in SampleRates, duration \in {BufferDurationMs, BufferDurationHiRateMs} :
        /\ buffer' = AudioBuffer_new(calculate_buffer_size(r, TargetChannels, duration),
                                     r, TargetChannels)
        /\ bufLog' = NewLog
        /\ BufOnly

\* SymphoniaDecoder::adjust_buffer_settings (decoder.rs:274-278)
AbAdjust ==
    \E duration \in {BufferDurationMs, BufferDurationHiRateMs}, threshold \in Thresholds :
        /\ buffer' = set_refill_threshold(
                        AudioBuffer_new(calculate_buffer_size(buffer.sample_rate,
                                                              buffer.channels, duration),
                                        buffer.sample_rate, buffer.channels),
                        threshold)
        /\ bufLog' = [NewLog EXCEPT !.op = "adjust"]
        /\ BufOnly

\* AudioBuffer::append (decoder.rs:52); the samples are numbered as appended
AbAppend ==
    \E n \in 1..MaxAppend :
        /\ bufLog.appended + n <= MaxStored
        /\ buffer' = BufAppend(buffer, [i \in 1..n |-> bufLog.appended + i])
        /\ bufLog' = [bufLog EXCEPT !.op = "append", !.appended = @ + n]
        /\ BufOnly

\* AudioBuffer::next (decoder.rs:48-50)
AbNext ==
    LET r == BufNext(buffer)
        first == r.ret = << >> /\ ~bufLog.none
    IN  /\ buffer' = r.b
        /\ bufLog' = [bufLog EXCEPT
                !.op = "next", !.ret = r.ret,
                !.returned = IF r.ret = << >> THEN @ ELSE @ + 1,
                !.none = @ \/ r.ret = << >>,
                !.noneReturned = IF first THEN bufLog.returned ELSE @,
                !.noneAppended = IF first THEN bufLog.appended ELSE @]
        /\ BufOnly

\* AudioBuffer::clear (decoder.rs:51)
AbClear ==
    /\ buffer' = BufClear(buffer)
    /\ bufLog' = [NewLog EXCEPT !.op = "clear"]
    /\ BufOnly

\* AudioBuffer::needs_refill (decoder.rs:54-56)
AbNeedsRefill ==
    /\ bufLog' = [bufLog EXCEPT !.op = "needs_refill",
                                !.refill = AudioBuffer_needs_refill(buffer)]
    /\ UNCHANGED buffer
    /\ BufOnly

BufferStep == AbNew \/ AbAdjust \/ AbAppend \/ AbNext \/ AbClear \/ AbNeedsRefill

(***************************************************************************)
(* Channel conversion (decoder.rs:191-198, 360-364, 374-438)               *)
(***************************************************************************)

ConvOnly ==
    UNCHANGED <<dec, stream, lastOp, lastRet, stPath, prevOp, prevFrom, start_pos,
                buffer, bufLog, fillCalls, device, cmpVars, srcVars, sysVars>>

\* new_with_buffer_duration on a file whose track has `source_channels`
\* channels (decoder.rs:191)
ConvOpen ==
    \E source_channels \in 1..MaxChannels :
        /\ conv' = Channels(source_channels)
        /\ ConvOnly

\* fill_buffer on a decoded packet (decoder.rs:360-364): clear the scratch
\* buffer and convert the decoded buffer into it
ConvDecode ==
    \E frames \in 0..MaxFrames, channels \in 1..MaxChannels, handled \in BOOLEAN :
        /\ conv' = [conv EXCEPT
                !.decoded = handled, !.frames = frames, !.channels = channels,
                !.scratch_buffer =
                    convert_audio_buffer_of(frames, channels, handled,
                                            conv.channel_map, conv.source_channels)]
        /\ ConvOnly

ConvertStep == ConvOpen \/ ConvDecode

\* C16: the decoder produces interleaved stereo: a decoded buffer of a handled
\* sample format, with the channel count of its file, adds exactly two samples
\* per frame, the channel count the decoder reports through channels(),
\* whatever the channel count of the file.
C16_TwoSamplesPerFrame ==
    (conv.decoded /\ conv.channels = conv.source_channels) =>
        Len(conv.scratch_buffer) = conv.target_channels * conv.frames

(***************************************************************************)
(* Format negotiation (wasapi/exclusive.rs:295-431)                        *)
(***************************************************************************)

\* exclusive.rs:396-398  what is probed, in the order of the arrays
sample_rates_to_try(default_sample_rate) ==
    <<default_sample_rate, 384000, 352800, 192000, 176400, 96000, 88200, 48000,
      44100, 32000, 22050, 16000>>
bit_depths ==
    <<[bits |-> 32, is_float |-> TRUE], [bits |-> 32, is_float |-> FALSE],
      [bits |-> 24, is_float |-> FALSE], [bits |-> 16, is_float |-> FALSE]>>
channels_to_try(default_channels) == <<default_channels, 2>>

\* exclusive.rs:405-406  the wave format of one probe
WaveFormat(sample_rate, channels, depth) ==
    [sample_rate |-> sample_rate, channels |-> channels,
     bits |-> depth.bits, is_float |-> depth.is_float]

\* the loop over sample types (exclusive.rs:404-412), from type k on:
\* found_format, an Option
RECURSIVE ProbeDepths(_, _, _, _)
ProbeDepths(supported, sample_rate, channels, k) ==
    IF k > Len(bit_depths) THEN << >>
    ELSE LET wave_format == WaveFormat(sample_rate, channels, bit_depths[k])
         IN  IF wave_format \in supported THEN <<wave_format>>
             ELSE ProbeDepths(supported, sample_rate, channels, k + 1)

\* the loop over channel counts (exclusive.rs:403-413), from count j on
RECURSIVE ProbeChannels(_, _, _, _)
ProbeChannels(supported, sample_rate, chans, j) ==
    IF j > Len(chans) THEN << >>
    ELSE LET found == ProbeDepths(supported, sample_rate, chans[j], 1)
         IN  IF found # << >> THEN found
             ELSE ProbeChannels(supported, sample_rate, chans, j + 1)

\* the loop over rates going on after a format is found, a later find
\* replacing an earlier one
RECURSIVE ProbeRates_LastWins(_, _, _, _)
ProbeRates_LastWins(supported, rates, chans, i) ==
    IF i > Len(rates) THEN << >>
    ELSE LET later == ProbeRates_LastWins(supported, rates, chans, i + 1)
         IN  IF later # << >> THEN later
             ELSE ProbeChannels(supported, rates[i], chans, 1)

\* the loop over rates (exclusive.rs:402-414), from rate i on; a format
\* found ends all three loops (break 'outer)
RECURSIVE ProbeRates(_, _, _, _)
ProbeRates(supported, rates, chans, i) ==
    IF i > Len(rates) THEN << >>
    ELSE LET found == ProbeChannels(supported, rates[i], chans, 1)
         IN  IF found # << >> THEN found
             ELSE ProbeRates(supported, rates, chans, i + 1)

\* initialize_exclusive_device (exclusive.rs:379-431) on a device with the
\* given mix format and supported formats; opened: the device, its client and
\* its mix format were got (382-392); started: the device period was got and
\* initialize_client succeeded (418-422)
initialize_exclusive_device(default_sample_rate, default_channels, supported, opened, started) ==
    LET found_format == IF opened
                        THEN ProbeRates(supported,
                                        sample_rates_to_try(default_sample_rate),
                                        channels_to_try(default_channels), 1)
                        ELSE << >>
    IN  [found_format |-> found_format,
         ok |-> opened /\ found_format # << >> /\ started]

\* the formats probed for a device
Probed(default_sample_rate, default_channels) ==
    {WaveFormat(sample_rates_to_try(default_sample_rate)[i],
                channels_to_try(default_channels)[j], bit_depths[k]) :
        i \in 1..12, j \in 1..2, k \in 1..4}

RECURSIVE SetsUpTo(_, _)
SetsUpTo(U, n) ==
    IF n = 0 THEN {{}}
    ELSE LET smaller == SetsUpTo(U, n - 1)
         IN  smaller \cup {t \cup {x} : t \in smaller, x \in U}

\* mix formats of the devices looked at: a rate that is not in the list and
\* one that is, stereo and 5.1
MixRates == {8000, 48000}
MixChannels == {2, 6}

NegOnly ==
    UNCHANGED <<dec, stream, lastOp, lastRet, stPath, prevOp, prevFrom, start_pos,
                buffer, bufLog, conv, fillCalls, cmpVars, srcVars, sysVars>>

\* handle_initialize (exclusive.rs:295-339) of a fresh actor on some device;
\* clients: the render client and the event handle were got (314-315)
NegInitialize ==
    /\ device = NoDevice
    /\ \E r \in MixRates, c \in MixChannels, opened, started, clients \in BOOLEAN :
          \E supported \in SetsUpTo(Probed(r, c), MaxSupported) :
              LET d == initialize_exclusive_device(r, c, supported, opened, started)
              IN  device' =
                      [default_sample_rate |-> r, default_channels |-> c,
                       supported |-> supported,
                       found_format |-> d.found_format,
                       responses |->
                          <<IF d.ok /\ clients
                            THEN [kind |-> "Initialized",
                                  sample_rate |-> d.found_format[1].sample_rate,
                                  channels |-> d.found_format[1].channels]
                            ELSE [kind |-> "InitFailed", sample_rate |-> 0,
                                  channels |-> 0]>>,
                       audio_client |-> d.ok /\ clients]
    /\ NegOnly

\* the actor is dropped with its handle; another device is looked at next
NegDrop ==
    /\ device # NoDevice
    /\ device' = NoDevice
    /\ NegOnly

NegotiateStep == NegInitialize \/ NegDrop

\* the probes in probe order: rates, then channels, then sample types
ProbeOrder(default_sample_rate, default_channels) ==
    [n \in 1..(12 * 2 * 4) |->
        WaveFormat(sample_rates_to_try(default_sample_rate)[((n - 1) \div 8) + 1],
                   channels_to_try(default_channels)[(((n - 1) % 8) \div 4) + 1],
                   bit_depths[((n - 1) % 4) + 1])]

\* C20: format negotiation accepts the first supported combination in probe
\* order (rates, then channels, then float32, int32, int24, int16): whatever
\* set of formats the device supports, the format found is the first of the
\* probe order that it supports, an Initialized response carries its rate and
\* channels, and when none is supported the one response is InitFailed.
C20_FirstSupportedInProbeOrder ==
    device # NoDevice =>
        LET order == ProbeOrder(device.default_sample_rate, device.default_channels)
            hits == {n \in DOMAIN order : order[n] \in device.supported}
        IN  /\ Len(device.responses) = 1
            /\ device.found_format # << >> =>
                    \E n \in hits :
                        /\ device.found_format = <<order[n]>>
                        /\ \A m \in hits : n <= m
            /\ device.responses[1].kind = "Initialized" =>
                    /\ device.found_format # << >>
                    /\ device.responses[1].sample_rate = device.found_format[1].sample_rate
                    /\ device.responses[1].channels = device.found_format[1].channels
            /\ hits = {} =>
                    /\ device.found_format = << >>
                    /\ device.responses[1].kind = "InitFailed"

\* the device supports a float format at a listed rate and an integer format
\* at its mix rate: the integer format, probed first, is the one accepted
C20_Witness ==
    /\ device # NoDevice /\ device.responses[1].kind = "Initialized"
    /\ ~device.found_format[1].is_float
    /\ device.found_format[1].sample_rate = device.default_sample_rate
    /\ \E g \in device.supported :
            g.is_float /\ g.sample_rate > device.default_sample_rate

(***************************************************************************)
(* Device output (wasapi/exclusive.rs:133-144, 232-263, 341-377)           *)
(***************************************************************************)
\* sample values pushed by the producer, none of them silence
SampleValues == {-1, 2}

\* f32::clamp
clamp(x, lo, hi) == IF x < lo THEN lo ELSE IF x > hi THEN hi ELSE x

\* output_samples without the volume multiplier
RECURSIVE PopSamples_Unscaled(_, _, _)
PopSamples_Unscaled(buf, samples_needed, current_volume) ==
    IF samples_needed = 0 THEN [output_samples |-> << >>, buf |-> buf]
    ELSE LET rest == PopSamples_Unscaled(IF buf = << >> THEN buf ELSE Tail(buf),
                                         samples_needed - 1, current_volume)
         IN  [output_samples |-> <<IF buf = << >> THEN 0 ELSE Head(buf)>>
                                    \o rest.output_samples,
              buf |-> rest.buf]

\* exclusive.rs:361-363  (0..samples_needed).map(|_| buf.pop_front()
\* .unwrap_or(0.0) * current_volume): one pop_front per output sample
RECURSIVE PopSamples(_, _, _)
PopSamples(buf, samples_needed, current_volume) ==
    IF samples_needed = 0 THEN [output_samples |-> << >>, buf |-> buf]
    ELSE LET rest == PopSamples(IF buf = << >> THEN buf ELSE Tail(buf),
                                samples_needed - 1, current_volume)
         IN  [output_samples |->
                  <<(IF buf = << >> THEN 0 ELSE Head(buf)) * current_volume>>
                      \o rest.output_samples,
              buf |-> rest.buf]

\* everything but the components of cmpVars
CmpOnly ==
    UNCHANGED <<dec, stream, lastOp, lastRet, stPath, prevOp, prevFrom, start_pos,
                buffer, bufLog, conv, fillCalls, device, srcVars, sysVars>>

OutOnly == CmpOnly /\ UNCHANGED <<app, mode, eq, vis, gen, ring>>

\* exclusive.rs:91-101, 220-231, 295-339  Initialize on a device that opens:
\* handle_initialize sets current_channels, initialize() sets the state
OutInitialize ==
    /\ output.state = "Uninitialized"
    /\ \E channels \in 1..2 :
          output' = [output EXCEPT !.current_channels = channels, !.state = "Stopped"]
    /\ OutOnly

\* exclusive.rs:109-113, 232-239  start(): the stream starts
OutStart ==
    /\ output.state \in {"Stopped", "Paused"}
    /\ output' = [output EXCEPT !.is_playing = TRUE, !.state = "Playing"]
    /\ OutOnly

\* exclusive.rs:121-125, 248-254  pause()
OutPause ==
    /\ output.state = "Playing"
    /\ output' = [output EXCEPT !.is_playing = FALSE, !.state = "Paused"]
    /\ OutOnly

\* exclusive.rs:133-137, 263  set_volume clamps, the actor stores the value
OutSetVolume ==
    /\ output.state # "Uninitialized"
    /\ \E vol \in (0 - 1)..(VolScale + 1) :
          output' = [output EXCEPT !.current_volume = clamp(vol, 0, VolScale)]
    /\ OutOnly

\* exclusive.rs:139-144  push_samples extends the ring buffer
OutPush ==
    /\ output.state # "Uninitialized"
    /\ \E n \in 1..MaxPushed : \E samples \in [1..n -> SampleValues] :
          /\ Len(output.sample_buffer) + n <= MaxRing
          /\ output' = [output EXCEPT !.sample_buffer = @ \o samples]
    /\ OutOnly

\* exclusive.rs:341-377  process_audio_output, called while is_playing: the
\* wait for the device event is bounded (354) and may time output, the device
\* may report no space; otherwise samples_needed samples are taken and
\* written, and a failed write stops playback
OutProcess ==
    /\ output.is_playing
    /\ \E wait_ok, space_ok, write_ok \in BOOLEAN,
          frames_available \in 0..MaxFramesAvailable :
          IF wait_ok /\ space_ok /\ frames_available > 0
          THEN LET r == PopSamples(output.sample_buffer,
                                   frames_available * output.current_channels,
                                   output.current_volume)
               IN  output' = [output EXCEPT
                              !.sample_buffer = r.buf,
                              !.wrote = TRUE,
                              !.frames_available = frames_available,
                              !.output_samples = r.output_samples,
                              !.before = output.sample_buffer,
                              !.after = r.buf,
                              !.volume_before = output.current_volume,
                              !.is_playing = write_ok,
                              !.state = IF write_ok THEN @ ELSE "Stopped"]
          ELSE output' = [output EXCEPT !.wrote = FALSE]
    /\ OutOnly

OutputStep ==
    \/ OutInitialize \/ OutStart \/ OutPause \/ OutSetVolume \/ OutPush
    \/ OutProcess

\* C21: underrun is filled with silence, never by blocking: a device write
\* holds exactly frames_available * channels samples; the first
\* k = min(ring buffer length, needed) of them are the k front samples of the
\* ring buffer in order, each multiplied by the current volume, the other
\* needed - k are zero; and the output step can be taken whenever the actor is
\* playing, whatever the ring buffer holds.
C21_UnderrunIsSilence ==
    /\ output.wrote =>
          LET needed == output.frames_available * output.current_channels
              k == Min(Len(output.before), needed)
          IN  /\ Len(output.output_samples) = needed
              /\ \A j \in 1..k :
                    output.output_samples[j] = output.before[j] * output.volume_before
              /\ \A j \in (k + 1)..needed : output.output_samples[j] = 0
              /\ output.after = SubSeq(output.before, k + 1, Len(output.before))
    /\ output.is_playing => ENABLED OutProcess

\* a write at half volume that found fewer samples than it needed
C21_Witness ==
    /\ output.wrote
    /\ Len(output.before) > 0
    /\ Len(output.before) < output.frames_available * output.current_channels
    /\ output.volume_before = 1
    /\ output.after = << >>

(***************************************************************************)
(* Control and status commands under contention (audio/commands.rs:23-138, *)
(* audio/playback.rs:940-994, wasapi/exclusive.rs:109-155)                 *)
(***************************************************************************)
\* the mutexes these commands touch: PlayerState (lib.rs:38-55) and the state
\* mutex of the device handle (exclusive.rs:50)
Mutexes ==
    {"sink", "target_volume", "exclusive_mode", "wasapi_player", "state",
     "waveform_data", "spectrum_data"}

\* the mutexes a thread other than the command thread takes: wasapi_player
\* by the decode worker (playback.rs:728, 794, 804, 812, 817), state by the
\* device actor (exclusive.rs:236-259, 370), the snapshots by the
\* visualization source (playback.rs:390-410).  sink, target_volume and
\* exclusive_mode are taken by command handlers only, which run one at a time.
BackgroundMutexes == {"wasapi_player", "state", "waveform_data", "spectrum_data"}

\* what the other threads hold while a command runs
HeldSets == {h \in SUBSET BackgroundMutexes : Cardinality(h) <= MaxHeld}

\* Mutex::try_lock succeeds when nobody holds the mutex
try_lock(m, held) == m \notin held

\* Mutex::lock waits when somebody holds the mutex
lock(m, held) == {m} \cap held

\* exclusive_mode.try_lock().map(|g| *g).unwrap_or(false)
exclusive_mode_or_false(a, held) ==
    try_lock("exclusive_mode", held) /\ a.exclusive_mode

\* exclusive.rs:153-155  get_state: *self.state.lock().unwrap()
get_state(a, held) ==
    [value |-> a.wasapi_state, waited |-> lock("state", held)]

\* playback.rs:940-969  get_status
get_status(a, held) ==
    LET got == exclusive_mode_or_false(a, held)
                 /\ try_lock("wasapi_player", held) /\ a.wasapi_player
    IN  [a EXCEPT !.op = "get_playback_status", !.held = held, !.ret = "Ok",
                  !.volume = IF try_lock("target_volume", held)
                             THEN a.target_volume ELSE VolScale,
                  !.waited = IF got THEN get_state(a, held).waited ELSE {}]

\* playback.rs:972-994  check_track_finished
check_track_finished(a, held) ==
    LET got == exclusive_mode_or_false(a, held)
                 /\ try_lock("wasapi_player", held) /\ a.wasapi_player
    IN  [a EXCEPT !.op = "is_track_finished", !.held = held, !.ret = "Ok",
                  !.volume = a.target_volume,
                  !.waited = IF got THEN get_state(a, held).waited ELSE {}]

\* commands.rs:23-39  get_waveform_data, get_spectrum_data: one try_lock
get_visualization_data(a, held, which) ==
    [a EXCEPT !.op = which, !.held = held, !.ret = "Ok",
              !.volume = a.target_volume, !.waited = {}]

\* commands.rs:51-72 (pause_track, to = "Paused") and 75-96 (resume_track,
\* to = "Playing"); sent: the send of the handle method succeeded
\* (exclusive.rs:121-131), after which the method locks `state`
pause_or_resume(a, held, op, to, sent) ==
    LET r == [a EXCEPT !.op = op, !.held = held, !.ret = "Ok",
                       !.volume = a.target_volume, !.waited = {}]
    IN  IF exclusive_mode_or_false(a, held)
        THEN IF try_lock("wasapi_player", held) /\ a.wasapi_player
             THEN IF sent
                  THEN [r EXCEPT !.wasapi_state = to,
                                 !.waited = lock("state", held)]
                  ELSE [r EXCEPT !.ret = "Err"]
             ELSE r
        ELSE IF try_lock("sink", held)
             THEN [r EXCEPT !.sink_paused = (to = "Paused")]
             ELSE r

\* commands.rs:99-128  set_volume; exclusive.rs:133-137 clamps, stores the
\* volume in the handle and sends it
set_volume(a, held, volume, sent) ==
    LET r == [a EXCEPT !.op = "set_volume", !.held = held, !.ret = "Ok",
                       !.volume = volume, !.waited = {}]
        t == IF try_lock("target_volume", held)
             THEN [r EXCEPT !.target_volume = volume] ELSE r
    IN  IF volume < 0 \/ volume > VolScale
        THEN [r EXCEPT !.ret = "Err"]
        ELSE IF exclusive_mode_or_false(a, held)
        THEN IF try_lock("wasapi_player", held) /\ a.wasapi_player
             THEN [t EXCEPT !.wasapi_volume = clamp(volume, 0, VolScale),
                            !.ret = IF sent THEN "Ok" ELSE "Err"]
             ELSE t
        ELSE IF try_lock("sink", held)
             THEN [t EXCEPT !.sink_volume = volume]
             ELSE t

AppOnly == CmpOnly /\ UNCHANGED <<output, mode, eq, vis, gen, ring>>

\* main.rs:58-99  the application starts with exclusive mode on or off in
\* its configuration; in exclusive mode the device may fail to open
\* (main.rs:246-270), which leaves exclusive_mode false
AppMain ==
    /\ \E exclusive_mode_enabled, opened \in BOOLEAN :
          app' = [NewApp EXCEPT
                     !.exclusive_mode = exclusive_mode_enabled /\ opened,
                     !.wasapi_player = exclusive_mode_enabled /\ opened,
                     !.wasapi_state = IF exclusive_mode_enabled /\ opened
                                      THEN "Stopped" ELSE "Uninitialized"]
    /\ AppOnly

AppGetStatus ==
    /\ \E held \in HeldSets : app' = get_status(app, held)
    /\ AppOnly

AppIsTrackFinished ==
    /\ \E held \in HeldSets : app' = check_track_finished(app, held)
    /\ AppOnly

AppGetWaveformData ==
    /\ \E held \in HeldSets :
          app' = get_visualization_data(app, held, "get_waveform_data")
    /\ AppOnly

AppGetSpectrumData ==
    /\ \E held \in HeldSets :
          app' = get_visualization_data(app, held, "get_spectrum_data")
    /\ AppOnly

AppPauseTrack ==
    /\ \E held \in HeldSets, sent \in BOOLEAN :
          app' = pause_or_resume(app, held, "pause_track", "Paused", sent)
    /\ AppOnly

AppResumeTrack ==
    /\ \E held \in HeldSets, sent \in BOOLEAN :
          app' = pause_or_resume(app, held, "resume_track", "Playing", sent)
    /\ AppOnly

AppSetVolume ==
    /\ \E held \in HeldSets, sent \in BOOLEAN,
          volume \in (0 - 1)..(VolScale + 1) :
          app' = set_volume(app, held, volume, sent)
    /\ AppOnly

ControlStep ==
    \/ AppMain \/ AppGetStatus \/ AppIsTrackFinished \/ AppGetWaveformData
    \/ AppGetSpectrumData \/ AppPauseTrack \/ AppResumeTrack \/ AppSetVolume

StatusQueries ==
    {"get_playback_status", "is_track_finished", "get_spectrum_data",
     "get_waveform_data"}

\* C24: status queries never block: get_playback_status, is_track_finished,
\* get_spectrum_data and get_waveform_data return without having waited for
\* a mutex, whatever mutexes other threads hold.
C24_StatusNeverWaits ==
    app.op \in StatusQueries => app.waited = {}

\* C25: a command is never lost to contention: when pause_track, resume_track
\* or set_volume returns success its effect has been applied (the device
\* actor, or in shared mode the sink, is paused / resumed; the target volume
\* is stored and given to the output), whatever mutexes other threads held.
C25_CommandNeverLost ==
    app.ret = "Ok" =>
        /\ app.op = "pause_track" =>
              IF app.exclusive_mode
              THEN app.wasapi_player => app.wasapi_state = "Paused"
              ELSE app.sink_paused
        /\ app.op = "resume_track" =>
              IF app.exclusive_mode
              THEN app.wasapi_player => app.wasapi_state = "Playing"
              ELSE ~app.sink_paused
        /\ app.op = "set_volume" =>
              /\ app.target_volume = app.volume
              /\ IF app.exclusive_mode
                 THEN app.wasapi_player => app.wasapi_volume = app.volume
                 ELSE app.sink_volume = app.volume

(***************************************************************************)
(* Device switches and the exclusive-mode toggle (commands.rs:160-303)     *)
(***************************************************************************)

ModeOnly == CmpOnly /\ UNCHANGED <<output, app, eq, vis, gen, ring>>

\* the running player: the mode flag, the device handle (0 is None), the sink
\* and the name of the current device
Running(m) ==
    <<m.exclusive_mode, m.wasapi_player, m.sink, m.current_device_name>>

\* a command begins: what it is, and the player it finds
Begin(m, op) == [m EXCEPT !.op = op, !.before = Running(m)]

\* a sink or device handle is created: it is a new object
Fresh(m) == m.made + 1

\* main.rs:57-99, 246-270  the application starts: the mode comes from the
\* configuration; in exclusive mode a device that fails to open leaves the
\* player in shared mode
main(m, opened) ==
    LET handle_ok == m.config /\ opened
    IN  [NewMode EXCEPT
            !.config = m.config,
            !.exclusive_mode = handle_ok,
            !.wasapi_player = IF handle_ok THEN 2 ELSE 0,
            !.made = IF m.config THEN 2 ELSE 1,
            !.before = <<handle_ok, IF handle_ok THEN 2 ELSE 0, 1, "A">>]

\* commands.rs:42-48, playback.rs:472-514, 518-551  play_track with no
\* position: the path is stored before the file is opened; in exclusive mode
\* a missing device handle fails first (playback.rs:538)
play_track(m, opened) ==
    IF m.exclusive_mode /\ m.wasapi_player = 0
    THEN [m EXCEPT !.ret = "Err"]
    ELSE [m EXCEPT !.current_path = TRUE,
                   !.ret = IF opened THEN "Ok" ELSE "Err"]

\* commands.rs:283-303 with the in-memory flag written as well
toggle_exclusive_mode_Live(m, enabled, load_ok, save_ok) ==
    IF m.exclusive_mode = enabled THEN [m EXCEPT !.ret = "Ok"]
    ELSE IF ~load_ok THEN [m EXCEPT !.ret = "RESTART_REQUIRED"]
    ELSE IF ~save_ok THEN [m EXCEPT !.ret = "Err"]
    ELSE [m EXCEPT !.config = enabled, !.exclusive_mode = enabled,
                   !.ret = "RESTART_REQUIRED"]

\* commands.rs:283-303  toggle_exclusive_mode: nothing to do when the mode is
\* already the requested one (291-295); otherwise the flag is written to the
\* configuration if that can be loaded (297-300, a failed save is returned
\* by `?`) and RESTART_REQUIRED is returned (302)
toggle_exclusive_mode(m, enabled, load_ok, save_ok) ==
    IF m.exclusive_mode = enabled THEN [m EXCEPT !.ret = "Ok"]
    ELSE IF ~load_ok THEN [m EXCEPT !.ret = "RESTART_REQUIRED"]
    ELSE IF ~save_ok THEN [m EXCEPT !.ret = "Err"]
    ELSE [m EXCEPT !.config = enabled, !.ret = "RESTART_REQUIRED"]

\* commands.rs:178-217  switch_to_wasapi_exclusive: the sink is stopped and
\* cleared, the old handle is taken out and dropped (193-197), a new handle
\* is made and initialized on the device; on success it is installed with
\* the device name (203-204), on failure the mode flag is cleared (211)
switch_to_wasapi_exclusive(m, device_name, initialized) ==
    IF initialized
    THEN [m EXCEPT !.wasapi_player = Fresh(m), !.made = Fresh(m),
                   !.current_device_name = device_name, !.ret = "Ok"]
    ELSE [m EXCEPT !.wasapi_player = 0, !.made = Fresh(m),
                   !.exclusive_mode = FALSE, !.ret = "Err"]

\* commands.rs:229-280  switch_to_shared_mode: a device that is not found or
\* whose stream or sink cannot be made is an error before anything changes
\* (237-247); then the old sink is stopped, the handle dropped, the new sink
\* installed with the device name (256-270), and the loaded track is played
\* again, whose failure is returned (272-274)
switch_to_shared_mode(m, device_name, created, replayed) ==
    IF ~created THEN [m EXCEPT !.ret = "Err"]
    ELSE LET s == [m EXCEPT !.wasapi_player = 0, !.sink = Fresh(m),
                            !.made = Fresh(m),
                            !.current_device_name = device_name, !.ret = "Ok"]
         IN  IF m.current_path THEN play_track(s, replayed) ELSE s

\* commands.rs:160-175
set_audio_device(m, device_name, created, replayed) ==
    IF m.exclusive_mode THEN switch_to_wasapi_exclusive(m, device_name, created)
    ELSE switch_to_shared_mode(m, device_name, created, replayed)

ModeMain ==
    /\ \E opened \in BOOLEAN : mode' = main(mode, opened)
    /\ ModeOnly

ModePlayTrack ==
    /\ \E opened \in BOOLEAN :
          mode' = play_track(Begin(mode, "play_track"), opened)
    /\ ModeOnly

ModeToggleExclusiveMode ==
    /\ \E enabled, load_ok, save_ok \in BOOLEAN :
          mode' = toggle_exclusive_mode(
                      [Begin(mode, "toggle_exclusive_mode") EXCEPT
                          !.enabled = enabled, !.io = <<load_ok, save_ok>>],
                      enabled, load_ok, save_ok)
    /\ ModeOnly

ModeSetAudioDevice ==
    /\ mode.made < MaxMade
    /\ \E device_name \in Devices, created, replayed \in BOOLEAN :
          mode' = set_audio_device(Begin(mode, "set_audio_device"),
                                   device_name, created, replayed)
    /\ ModeOnly

ModeStep ==
    ModeMain \/ ModePlayTrack \/ ModeToggleExclusiveMode \/ ModeSetAudioDevice

\* C27: toggle_exclusive_mode never changes the running player: the in-memory
\* exclusive_mode flag, the sink and the device handle (and the device name)
\* are as before the call; a requested value that differs from the current
\* mode is written to the configuration, when that can be loaded and saved,
\* and answered with RESTART_REQUIRED, never with success; a requested value
\* equal to the current mode changes nothing at all.  The mode changes only
\* when the application starts again, to what the configuration then says.
C27_ToggleOnlyPersists ==
    /\ [](mode.op = "toggle_exclusive_mode" =>
            /\ Running(mode) = mode.before
            /\ mode.enabled # mode.exclusive_mode =>
                  /\ mode.ret # "Ok"
                  /\ mode.io = <<TRUE, TRUE>> =>
                        mode.config = mode.enabled /\ mode.ret = "RESTART_REQUIRED"
            /\ mode.enabled = mode.exclusive_mode => mode.ret = "Ok")
    /\ [][(mode'.exclusive_mode # mode.exclusive_mode
              /\ mode'.op # "set_audio_device")
             => (mode'.op = "main" /\ (mode'.exclusive_mode => mode.config))]_vars

\* exclusive mode was requested while the player runs in shared mode: it is
\* in the configuration, the player is still in shared mode on its sink
C27_Witness ==
    /\ mode.op = "toggle_exclusive_mode"
    /\ mode.enabled /\ ~mode.exclusive_mode
    /\ mode.config /\ mode.ret = "RESTART_REQUIRED"
    /\ mode.wasapi_player = 0 /\ mode.current_path

\* C28: a failed device switch rolls back: when set_audio_device returns an
\* error the exclusive_mode flag, the device handle, the sink and the current
\* device name are those from before the call.
C28_FailedSwitchRollsBack ==
    (mode.op = "set_audio_device" /\ mode.ret = "Err") =>
        Running(mode) = mode.before

(***************************************************************************)
(* The equalizer (equalizer/commands.rs, equalizer/processor.rs) and the   *)
(* EQ stage of VisualizationSource (playback.rs:147-212, 304-335).         *)
(* Gains and the preamp are in tenths of a dB.                             *)
(***************************************************************************)

EqOnly == CmpOnly /\ UNCHANGED <<output, app, mode, vis, gen, ring>>

\* the gains and preamps a command is called with: inside, at and beyond the
\* limits
GainArgs == {-90, 0, 80}

\* get_all_presets (equalizer/processor.rs:48-61), the first EQ_BAND_COUNT
\* bands of Bass Boost; Flat is not in the list
Presets ==
    [name \in {"Bass Boost"} |->
        [i \in 1..EQ_BAND_COUNT |-> <<40, 35, 25, 15, 0, 0, 0, 0, 0, 0>>[i]]]

PresetNames == {"Bass Boost", "Flat"}

\* the batches an input source delivers
EqSamples == {-400, 900}

\* PREAMP_TABLE[index] = 10^(db / 20) (playback.rs:75-83): 0.398 at -8 dB, 1 at
\* 0 dB, 2.512 at +8 dB, interpolated between these entries
PREAMP_TABLE(index) ==
    IF index <= 80 THEN 398 + (602 * index) \div 80
    ELSE One + (1512 * (index - 80)) \div 80

\* playback.rs:85-89
db_to_linear_fast(db) ==
    LET clamped == clamp(db, -80, 80)
        index == clamped + 80
    IN  PREAMP_TABLE(Min(index, 160))

\* playback.rs:42-52  compute_soft_clip, with tanh(z) taken as min(z, 1)
compute_soft_clip(x) ==
    IF x <= 950 THEN x
    ELSE 950 + Min((x - 950) \div 2, 50)

\* playback.rs:56-69
soft_clip_fast(x) ==
    LET abs_x == IF x < 0 THEN -x ELSE x
    IN  IF abs_x <= 950 THEN x
        ELSE LET index == Min(abs_x, 2000)
             IN  (IF x < 0 THEN -1 ELSE 1) * compute_soft_clip(index)

\* equalizer/processor.rs:79-90  peaking_eq: the unit filter for a gain of
\* zero; otherwise the biquad of the band, here with alpha = 1/4,
\* cos(omega) = 1/4 and A = 1 + gain_db / 160, before the division by a0
peaking_eq(gain_db) ==
    IF gain_db = 0 THEN DefaultCoefficients
    ELSE LET a == One + (One * gain_db) \div 160
             alpha_a == a \div 4
             alpha_over_a == (One * One) \div (4 * a)
             a0 == One + alpha_over_a
         IN  [b0 |-> (One * (One + alpha_a)) \div a0,
              b1 |-> (One * (-500)) \div a0,
              b2 |-> (One * (One - alpha_a)) \div a0,
              a1 |-> (One * (-500)) \div a0,
              a2 |-> (One * (One - alpha_over_a)) \div a0]

\* equalizer/processor.rs:101-109  BiquadState::process
biquad_process(s, input, coeffs) ==
    LET y == (coeffs.b0 * input + coeffs.b1 * s.x1 + coeffs.b2 * s.x2
                  - coeffs.a1 * s.y1 - coeffs.a2 * s.y2) \div One
    IN  [s |-> [x1 |-> input, x2 |-> s.x1, y1 |-> y, y2 |-> s.y1], y |-> y]

\* playback.rs:201-206  one band over the batch: sample i goes through the
\* filter state of channel i % channels
RECURSIVE BandOverBatch(_, _, _, _)
BandOverBatch(chan_states, coeffs, batch_in, i) ==
    IF i > Len(batch_in) THEN [s |-> chan_states, y |-> << >>]
    ELSE LET ch_index == ((i - 1) % EqChannels) + 1
             r == biquad_process(chan_states[ch_index], batch_in[i], coeffs)
             rest == BandOverBatch([chan_states EXCEPT ![ch_index] = r.s],
                                   coeffs, batch_in, i + 1)
         IN  [s |-> rest.s, y |-> <<r.y>> \o rest.y]

\* playback.rs:201-206  the bands one after the other
RECURSIVE AllBands(_, _, _, _)
AllBands(band_states, coefficients, batch_in, band) ==
    IF band > EQ_BAND_COUNT THEN [s |-> band_states, y |-> batch_in]
    ELSE LET r == BandOverBatch(band_states[band], coefficients[band],
                                batch_in, 1)
         IN  AllBands([band_states EXCEPT ![band] = r.s], coefficients, r.y,
                      band + 1)

\* playback.rs:189-212 without the test of cached_enabled
process_batch_NoBypass(e, batch_in) ==
    LET amplified == [i \in 1..Len(batch_in) |->
                         (batch_in[i] * e.cached_preamp_multiplier) \div One]
        r == AllBands(e.states, e.coefficients, amplified, 1)
    IN  [e EXCEPT !.states = r.s,
                  !.pending_processed =
                      [i \in 1..Len(r.y) |-> soft_clip_fast(r.y[i])]]

\* playback.rs:189-212  BatchEqProcessor::process_batch: nothing when the
\* cached settings are disabled (191); otherwise preamp, the bands, soft clip
process_batch(e, batch_in) ==
    IF ~e.cached_enabled THEN [e EXCEPT !.pending_processed = batch_in]
    ELSE LET amplified == [i \in 1..Len(batch_in) |->
                              (batch_in[i] * e.cached_preamp_multiplier) \div One]
             r == AllBands(e.states, e.coefficients, amplified, 1)
         IN  [e EXCEPT !.states = r.s,
                       !.pending_processed =
                           [i \in 1..Len(r.y) |-> soft_clip_fast(r.y[i])]]

\* playback.rs:170-178  update_settings: enabled and the preamp multiplier
\* are always taken over, the coefficients only when the equalizer is enabled
update_settings(e, settings) ==
    [e EXCEPT !.cached_enabled = settings.enabled,
              !.cached_preamp_multiplier = db_to_linear_fast(settings.preamp),
              !.coefficients = IF settings.enabled
                               THEN [i \in 1..EQ_BAND_COUNT |->
                                        peaking_eq(settings.gains[i])]
                               ELSE @]

\* playback.rs:304-335  refill_batch on a batch the input delivered: the
\* settings are read every EqUpdateBatches batches, if the lock can be had
\* (321-328); then the batch is copied and processed (331-332)
refill_batch(e, batch_in, read_ok) ==
    LET counted == e.eq_update_counter + 1
        due == counted >= EqUpdateBatches
        upd == IF due /\ read_ok THEN update_settings(e, e.settings) ELSE e
        got == [upd EXCEPT !.eq_update_counter = IF due THEN 0 ELSE counted,
                           !.pending_samples = batch_in,
                           !.batches = @ + 1,
                           !.enabled_at_refill = e.settings.enabled,
                           !.refreshed = due /\ read_ok,
                           !.op = "refill_batch", !.ret = "Ok"]
    IN  process_batch(got, batch_in)

\* equalizer/commands.rs:51-65 without the clamp of line 58
set_eq_gains_Unclamped(e, gains) ==
    IF Len(gains) # EQ_BAND_COUNT THEN [e EXCEPT !.ret = "Err"]
    ELSE [e EXCEPT !.settings.gains = gains, !.ret = "Ok"]

\* equalizer/commands.rs:51-65  set_eq_gains: the number of gains is checked,
\* each is clamped, GlobalEqualizer::set_gains stores them
\* (equalizer/processor.rs:263-265)
set_eq_gains(e, gains) ==
    IF Len(gains) # EQ_BAND_COUNT THEN [e EXCEPT !.ret = "Err"]
    ELSE [e EXCEPT !.settings.gains =
                       [i \in 1..EQ_BAND_COUNT |-> clamp(gains[i], -80, 80)],
                   !.ret = "Ok"]

\* equalizer/commands.rs:68-79 and equalizer/processor.rs:267-271; `band`
\* counts from 0
set_eq_band_gain(e, band, gain) ==
    IF band >= EQ_BAND_COUNT THEN [e EXCEPT !.ret = "Err"]
    ELSE [e EXCEPT !.settings.gains[band + 1] =
                       clamp(clamp(gain, -80, 80), -80, 80),
                   !.ret = "Ok"]

\* equalizer/commands.rs:82-89 and equalizer/processor.rs:273-275
set_eq_preamp(e, preamp) ==
    [e EXCEPT !.settings.preamp = clamp(clamp(preamp, -80, 80), -80, 80),
              !.ret = "Ok"]

\* equalizer/commands.rs:97-110  apply_eq_preset: the gains of the preset of
\* that name, as they are
apply_eq_preset(e, preset_name) ==
    IF preset_name \notin DOMAIN Presets THEN [e EXCEPT !.ret = "Err"]
    ELSE [e EXCEPT !.settings.gains = Presets[preset_name], !.ret = "Ok"]

\* equalizer/commands.rs:113-122
reset_eq(e) == [e EXCEPT !.settings = DefaultEqSettings, !.ret = "Ok"]

\* equalizer/commands.rs:42-48
set_eq_enabled(e, enabled) ==
    [e EXCEPT !.settings.enabled = enabled, !.ret = "Ok"]

\* playback.rs:259-300  a new source is built on the shared settings
\* (with_eq_settings reads them at once, 294-299)
EqNewSource ==
    /\ eq' = [update_settings([NewEq EXCEPT !.settings = eq.settings],
                              eq.settings)
                 EXCEPT !.op = "new"]
    /\ EqOnly

EqRefillBatch ==
    /\ eq.batches < MaxBatches
    /\ \E batch_in \in [1..BATCH_SIZE -> EqSamples], read_ok \in BOOLEAN :
          eq' = refill_batch(eq, batch_in, read_ok)
    /\ EqOnly

EqSetEnabled ==
    /\ \E enabled \in BOOLEAN :
          eq' = set_eq_enabled([eq EXCEPT !.op = "set_eq_enabled"], enabled)
    /\ EqOnly

EqSetGains ==
    /\ \E gains \in SeqsUpTo(GainArgs, EQ_BAND_COUNT) :
          eq' = set_eq_gains([eq EXCEPT !.op = "set_eq_gains"], gains)
    /\ EqOnly

EqSetBandGain ==
    /\ \E band \in 0..EQ_BAND_COUNT, gain \in GainArgs :
          eq' = set_eq_band_gain([eq EXCEPT !.op = "set_eq_band_gain"],
                                 band, gain)
    /\ EqOnly

EqSetPreamp ==
    /\ \E preamp \in GainArgs :
          eq' = set_eq_preamp([eq EXCEPT !.op = "set_eq_preamp"], preamp)
    /\ EqOnly

EqApplyPreset ==
    /\ \E preset_name \in PresetNames :
          eq' = apply_eq_preset([eq EXCEPT !.op = "apply_eq_preset"],
                                preset_name)
    /\ EqOnly

EqReset ==
    /\ eq' = reset_eq([eq EXCEPT !.op = "reset_eq"])
    /\ EqOnly

\* the commands of the equalizer, in any order
EqCommandStep ==
    \/ EqSetEnabled \/ EqSetGains \/ EqSetBandGain \/ EqSetPreamp
    \/ EqApplyPreset \/ EqReset

\* sources are built and read while the equalizer is switched on and off,
\* given a preset and a preamp, and reset
EqStep ==
    \/ EqNewSource \/ EqRefillBatch \/ EqSetEnabled \/ EqSetPreamp
    \/ EqApplyPreset \/ EqReset

\* C29 as stated: whenever the shared EqSettings have enabled = false when a
\* batch goes through the EQ stage, the batch leaves it unchanged.
C29_DisabledIsIdentity ==
    (eq.op = "refill_batch" /\ ~eq.enabled_at_refill) =>
        eq.pending_processed = eq.pending_samples

\* C29, amended: the EQ stage works on its cached copy of the settings.  A
\* batch processed while the cached copy is disabled leaves the stage
\* unchanged and in order, whatever the gains, the preamp and the filter
\* states are from earlier settings; and a batch at which the stage reads the
\* shared settings (every EqUpdateBatches-th batch, when the lock is free) is
\* processed with the enabled flag they have at that moment.
C29_CachedDisabledIsIdentity ==
    /\ (eq.op = "refill_batch" /\ ~eq.cached_enabled) =>
           eq.pending_processed = eq.pending_samples
    /\ (eq.op = "refill_batch" /\ eq.refreshed) =>
           eq.cached_enabled = eq.enabled_at_refill

\* a batch went through unchanged with the cached copy disabled, although
\* earlier settings left a preamp and coefficients that would change it
C29_Witness ==
    /\ eq.op = "refill_batch" /\ ~eq.cached_enabled /\ eq.refreshed
    /\ eq.cached_preamp_multiplier # One
    /\ eq.coefficients[1] # DefaultCoefficients
    /\ eq.pending_processed = eq.pending_samples
    /\ Len(eq.pending_samples) = BATCH_SIZE

VisOnly == CmpOnly /\ UNCHANGED <<output, app, mode, eq, gen, ring>>

\* the locks another thread can hold while next() runs: the spectrum snapshot
\* (a status query, commands.rs:33-39) and the writer side of the EQ settings
\* (an equalizer command, equalizer/processor.rs:255-275)
VisLocks == {"spectrum_data", "eq_settings"}

\* playback.rs:288-291 without the start position: the count starts at zero
with_start_position_Zero(v, position) ==
    [v EXCEPT !.samples_played = 0,
              !.started = (position * VisRate) \div PosDen,
              !.start = position]

\* playback.rs:288-291  with_start_position: the sample count of the
\* requested time, cut to a whole number (`as u64`); `position` is in
\* 1/PosDen seconds, VisRate is sample_rate * channels
with_start_position(v, position) ==
    [v EXCEPT !.samples_played = (position * VisRate) \div PosDen,
              !.started = (position * VisRate) \div PosDen,
              !.start = position]

\* playback.rs:294-300  with_eq_settings: the shared settings are read at once
with_eq_settings(v) == [v EXCEPT !.cached = v.settings]

\* playback.rs:406-461 with a blocking lock on the snapshot
compute_spectrum_Blocking(v) ==
    [v EXCEPT !.prev_spectrum = v.samples_played,
              !.spectrum_data = v.samples_played,
              !.waited = @ \cup lock("spectrum_data", v.held)]

\* playback.rs:406-461  compute_spectrum: with the snapshot lock the spectrum
\* is computed, smoothed into prev_spectrum and copied to the snapshot;
\* without it nothing is computed; prev_spectrum is emitted either way
compute_spectrum(v) ==
    IF try_lock("spectrum_data", v.held)
    THEN [v EXCEPT !.prev_spectrum = v.samples_played,
                   !.spectrum_data = v.samples_played]
    ELSE [v EXCEPT !.skipped = @ \cup {"spectrum_data"}]

\* playback.rs:373-401  process_visualization: the position event every
\* PositionPeriodMs (382-389), the spectrum every FftPeriodMs (391-397), then
\* the older half of the buffer is dropped (399-401)
process_visualization(v) ==
    LET pos_due == v.now - v.last_position_emit_time >= PositionPeriodMs
        fft_due == v.now - v.last_fft_time >= FftPeriodMs
        p == IF pos_due
             THEN [v EXCEPT !.last_position_emit_time = v.now,
                            !.position = v.samples_played,
                            !.monotone = @ /\ v.samples_played >= v.position,
                            !.positions = @ + 1]
             ELSE v
        f == IF fft_due
             THEN compute_spectrum([p EXCEPT !.last_fft_time = v.now])
             ELSE p
    IN  [f EXCEPT !.buffer_len = @ - (@ \div 2)]

\* playback.rs:304-335  refill_batch with k samples delivered by the input:
\* the cursor is reset before the input is read (305-306); with no sample the
\* batch made last stays in pending_processed (316-318); otherwise the
\* settings are read every EqUpdateBatches batches if no writer holds them
\* (321-328) and the batch becomes pending_processed (331-332)
vis_refill_batch(v, k) ==
    IF k = 0 THEN [v EXCEPT !.pending_index = 0]
    ELSE LET counted == v.eq_update_counter + 1
             due == counted >= EqUpdateBatches
         IN  [v EXCEPT !.pending_index = 0,
                       !.pending_len = k,
                       !.input_left = @ - k,
                       !.eq_update_counter = IF due THEN 0 ELSE counted,
                       !.cached = IF due /\ try_lock("eq_settings", v.held)
                                  THEN v.settings ELSE @,
                       !.skipped = IF due /\ ~try_lock("eq_settings", v.held)
                                   THEN @ \cup {"eq_settings"} ELSE @]

\* playback.rs:340-369 without the eof_sent flag (346-348)
vis_next_NoEofFlag(v, k) ==
    LET refill == v.pending_index >= v.pending_len
        r == IF refill THEN vis_refill_batch(v, k) ELSE v
    IN  IF refill /\ k = 0
        THEN [r EXCEPT !.ended = @ + 1, !.nones = Min(@ + 1, 2),
                       !.ret = "None"]
        ELSE LET s == [r EXCEPT !.pending_index = @ + 1,
                                !.samples_played = @ + 1,
                                !.buffer_len = @ + 1,
                                !.ret = "Some"]
             IN  IF s.buffer_len >= FftSize THEN process_visualization(s)
                 ELSE s

\* playback.rs:340-369  next: a refill when the batch is used up, with
\* track-ended on the first refill that delivers nothing (343-351); then the
\* sample at the cursor is counted, pushed to the visualization buffer and
\* returned, after process_visualization if the buffer is full (356-368)
vis_next(v, k) ==
    LET refill == v.pending_index >= v.pending_len
        r == IF refill THEN vis_refill_batch(v, k) ELSE v
    IN  IF refill /\ k = 0
        THEN [r EXCEPT !.eof_sent = TRUE,
                       !.ended = IF v.eof_sent THEN @ ELSE @ + 1,
                       !.nones = Min(@ + 1, 2),
                       !.ret = "None"]
        ELSE LET s == [r EXCEPT !.pending_index = @ + 1,
                                !.samples_played = @ + 1,
                                !.buffer_len = @ + 1,
                                !.ret = "Some"]
             IN  IF s.buffer_len >= FftSize THEN process_visualization(s)
                 ELSE s

\* playback.rs:489-500  a session starts: a source on `len` samples, at the
\* requested position, with the shared settings
VisNew ==
    /\ \E position \in 0..MaxStart, len \in 0..MaxVisInput :
          vis' = with_eq_settings(with_start_position(
                     [NewVis EXCEPT !.input_left = len,
                                    !.settings = vis.settings,
                                    !.spectrum_data = vis.spectrum_data,
                                    !.now = vis.now],
                     position))
    /\ VisOnly

\* an equalizer command writes the shared settings
VisSettings ==
    /\ vis' = [vis EXCEPT !.settings = (@ + 1) % (MaxSettings + 1)]
    /\ VisOnly

\* one call of next(): the clock has advanced by dt, other threads hold
\* `held`, and the input delivers k samples if a batch is read (fewer than a
\* batch when it returns None early)
VisNext ==
    /\ vis.calls < MaxVisCalls
    /\ \E dt \in 0..PositionPeriodMs, held \in SUBSET VisLocks,
          k \in 0..Min(BATCH_SIZE, vis.input_left) :
          vis' = vis_next([vis EXCEPT !.now = Min(@ + dt, MaxNow),
                                      !.held = held, !.skipped = {},
                                      !.waited = {}, !.calls = @ + 1,
                                      !.was = <<vis.spectrum_data,
                                                vis.prev_spectrum,
                                                vis.cached>>],
                          k)
    /\ VisOnly

VisStep == VisNew \/ VisSettings \/ VisNext

\* C31: next() never waits for a lock, and returns the sample whatever locks
\* other threads hold; an update whose lock is held is skipped: the spectrum
\* snapshot and prev_spectrum, or the cached EQ settings, are as before the
\* call, and the tick is used up (last_fft_time is the time of the call, the
\* update counter is back at zero), so nothing is left to be done later.
C31_VisualizationNeverStalls ==
    /\ vis.waited = {}
    /\ vis.calls < MaxVisCalls => ENABLED VisNext
    /\ "spectrum_data" \in vis.skipped =>
          /\ vis.spectrum_data = vis.was[1] /\ vis.prev_spectrum = vis.was[2]
          /\ vis.last_fft_time = vis.now
          /\ vis.ret = "Some"
    /\ "eq_settings" \in vis.skipped =>
          /\ vis.cached = vis.was[3] /\ vis.eq_update_counter = 0
          /\ vis.ret = "Some"
    /\ vis.skipped \subseteq vis.held

\* both locks were held at a call at which the spectrum and the EQ settings
\* were due: both updates were skipped and the sample was returned
C31_Witness ==
    /\ vis.skipped = VisLocks /\ vis.ret = "Some"
    /\ vis.cached # vis.settings
    /\ vis.spectrum_data # vis.samples_played

GenOnly == CmpOnly /\ UNCHANGED <<output, app, mode, eq, vis, ring>>

GenHandlers == 1..MaxGenHandlers

\* playback.rs:524 with the id read when the handler began and written back
\* one higher (a load and a store in place of fetch_add)
fetch_add_LoadStore(s, t) ==
    [s EXCEPT !.decode_thread_id = s.handler[t].loaded + 1,
              !.handler[t].new_thread_id = s.handler[t].loaded + 1,
              !.handler[t].pc = "s533"]

\* playback.rs:524  new_thread_id = decode_thread_id.fetch_add(1) + 1, in one
\* atomic step
fetch_add(s, t) ==
    [s EXCEPT !.decode_thread_id = @ + 1,
              !.handler[t].new_thread_id = s.decode_thread_id + 1,
              !.handler[t].pc = "s533"]

\* playback.rs:523  decode_thread_stop.store(true)
GenStop(t) ==
    /\ gen.handler[t].pc = "idle"
    /\ gen.commands < MaxGenCommands
    /\ gen' = [gen EXCEPT !.decode_thread_stop = TRUE,
                          !.commands = @ + 1,
                          !.handler[t].loaded = gen.decode_thread_id,
                          !.handler[t].pc = "s524"]
    /\ GenOnly

\* playback.rs:524
GenFetchAdd(t) ==
    /\ gen.handler[t].pc = "s524"
    /\ gen' = fetch_add(gen, t)
    /\ GenOnly

\* playback.rs:525-546  the device is stopped and cleared, the flag is set
\* back (533); without a device (537) or a decoder (546) the handler returns
\* Err and spawns nothing
GenClearFlag(t) ==
    /\ gen.handler[t].pc = "s533"
    /\ \E ok \in BOOLEAN :
          gen' = [gen EXCEPT !.decode_thread_stop = FALSE,
                             !.handler[t].pc = IF ok THEN "s566" ELSE "idle"]
    /\ GenOnly

\* playback.rs:566-571  thread::spawn of decode_and_push_to_wasapi with
\* my_id = new_thread_id
GenSpawn(t) ==
    /\ gen.handler[t].pc = "s566"
    /\ gen' = [gen EXCEPT !.spawned = Append(@, gen.handler[t].new_thread_id),
                          !.handler[t].pc = "idle"]
    /\ GenOnly

GenStep ==
    \E t \in GenHandlers :
        GenStop(t) \/ GenFetchAdd(t) \/ GenClearFlag(t) \/ GenSpawn(t)

\* C34: the generation id never decreases, every worker is spawned with an id
\* of its own that the generation id has reached, so at most one worker, the
\* one spawned last for the current id, passes the test thread_id == my_id;
\* also when two play or seek handlers run at once.
C34_OneWorkerPerGeneration ==
    /\ [](/\ \A i, j \in 1..Len(gen.spawned) :
                i # j => gen.spawned[i] # gen.spawned[j]
          /\ \A i \in 1..Len(gen.spawned) :
                gen.spawned[i] \in 1..gen.decode_thread_id
          /\ Cardinality({i \in 1..Len(gen.spawned) :
                            gen.spawned[i] = gen.decode_thread_id}) <= 1)
    /\ [][gen'.decode_thread_id >= gen.decode_thread_id]_vars

\* two handlers ran at once, the one that began first spawned last: its
\* worker has the older id and is stale from the start
C34_Witness ==
    /\ Len(gen.spawned) >= 2
    /\ gen.spawned[Len(gen.spawned)] < gen.decode_thread_id
    /\ gen.spawned[Len(gen.spawned)] < gen.spawned[Len(gen.spawned) - 1]
    /\ \E t \in GenHandlers : gen.handler[t].pc = "s566"

(***************************************************************************)
(* The device actor and its ring buffer under the control commands         *)
(* (wasapi/exclusive.rs:109-149, 218-286, 341-377).  A sample is its       *)
(* number in push order.                                                   *)
(***************************************************************************)

RingOnly == CmpOnly /\ UNCHANGED <<output, app, mode, eq, vis, gen>>

\* exclusive.rs:109-137  the commands the methods of a handle send (no method
\* sends ClearBuffer, clear_buffer() empties the ring buffer itself)
RingCommands == {"Start", "Stop", "Pause", "Resume", "SetVolume"}

\* exclusive.rs:109-131  the state a method stores after its send
RingStateAfter(c, state) ==
    CASE c \in {"Start", "Resume"} -> "Playing"
      [] c = "Stop" -> "Stopped"
      [] c = "Pause" -> "Paused"
      [] OTHER -> state

\* exclusive.rs:232-264 with a Pause that also empties the ring buffer
ring_command_PauseFlushes(a, c, ok) ==
    CASE c \in {"Start", "Resume"} /\ a.audio_client /\ ok ->
            [a EXCEPT !.is_playing = TRUE, !.state = "Playing"]
      [] c = "Stop" /\ a.audio_client ->
            [a EXCEPT !.is_playing = FALSE, !.state = "Stopped",
                      !.sample_buffer = << >>]
      [] c = "Pause" /\ a.audio_client ->
            [a EXCEPT !.is_playing = FALSE, !.state = "Paused",
                      !.sample_buffer = << >>]
      [] OTHER -> a

\* exclusive.rs:232-264  the arms of the actor's match for command c; ok: the
\* start_stream of Start and Resume succeeds (SetVolume only replaces
\* current_volume, which scales the samples written and is left out here)
ring_command(a, c, ok) ==
    CASE c \in {"Start", "Resume"} /\ a.audio_client /\ ok ->
            [a EXCEPT !.is_playing = TRUE, !.state = "Playing"]
      [] c = "Stop" /\ a.audio_client ->
            [a EXCEPT !.is_playing = FALSE, !.state = "Stopped",
                      !.sample_buffer = << >>]
      [] c = "Pause" /\ a.audio_client ->
            [a EXCEPT !.is_playing = FALSE, !.state = "Paused"]
      [] OTHER -> a

\* a method of the handle sends c (the channel has room) and stores the state
RingSend ==
    /\ Len(ring.command_q) < RingQueueCap
    /\ ring.sent < MaxRingSent
    /\ \E c \in RingCommands :
          ring' = [ring EXCEPT !.command_q = Append(@, c),
                               !.sent = @ + 1,
                               !.state = RingStateAfter(c, @)]
    /\ RingOnly

\* exclusive.rs:139-144  push_samples: the worker adds the next sample
RingPush ==
    /\ ring.pushed < MaxRingPushed
    /\ ring' = [ring EXCEPT !.sample_buffer = Append(@, ring.pushed + 1),
                            !.pushed = @ + 1]
    /\ RingOnly

\* exclusive.rs:146-149  clear_buffer
RingClearBuffer ==
    /\ ring.sample_buffer # << >>
    /\ ring' = [ring EXCEPT !.sample_buffer = << >>, !.front_at_pause = 0,
                            !.resumed = FALSE]
    /\ RingOnly

\* exclusive.rs:219-266  the actor takes the command at the head of the queue
RingCommand ==
    /\ ring.command_q # << >>
    /\ \E ok \in BOOLEAN :
          LET c == Head(ring.command_q)
              a == ring_command([ring EXCEPT !.command_q = Tail(@)], c, ok)
              paused == c = "Pause" /\ ring.audio_client
              started == c \in {"Start", "Resume"} /\ ring.audio_client /\ ok
              stopped == c = "Stop" /\ ring.audio_client
          IN  ring' = [a EXCEPT
                  !.front_at_pause =
                      IF stopped THEN 0
                      ELSE IF paused
                      THEN (IF ring.sample_buffer = << >> THEN 0
                            ELSE Head(ring.sample_buffer))
                      ELSE @,
                  !.resumed = IF stopped \/ paused THEN FALSE
                              ELSE IF started /\ ring.front_at_pause # 0 THEN TRUE
                              ELSE @]
    /\ RingOnly

\* exclusive.rs:267-280, 341-377  process_audio_output while playing: `needed`
\* samples leave the ring buffer from its front; a failed write stops playback
RingOut ==
    /\ ring.is_playing
    /\ \E needed \in 1..MaxDeviceSamples, ok \in BOOLEAN :
          ring' = [ring EXCEPT
                      !.sample_buffer =
                          SubSeq(@, Min(needed, Len(@)) + 1, Len(@)),
                      !.is_playing = ok,
                      !.state = IF ok THEN @ ELSE "Stopped",
                      !.first_after_resume =
                          IF ring.resumed
                          THEN (IF ring.sample_buffer = << >> THEN 0
                                ELSE Head(ring.sample_buffer))
                          ELSE @,
                      !.expected = IF ring.resumed THEN ring.front_at_pause
                                   ELSE @,
                      !.checked = @ \/ ring.resumed,
                      !.resumed = FALSE,
                      !.front_at_pause = 0]
    /\ RingOnly

RingStep == RingSend \/ RingPush \/ RingClearBuffer \/ RingCommand \/ RingOut

\* the actor takes command c in this step
RingTakes(c) ==
    /\ ring.command_q # << >>
    /\ Head(ring.command_q) = c
    /\ ring'.command_q = Tail(ring.command_q)

\* C39: Pause, Resume and SetVolume (and Start) leave the ring buffer as it
\* is; a command that changes it is a Stop, which empties it; and the first
\* sample written after a Pause and the Resume that follows it, with no Stop
\* or clear_buffer between them, is the sample that was at the front when the
\* Pause took effect.
C39_PauseKeepsRingBuffer ==
    /\ [][/\ (\E c \in {"Pause", "Resume", "SetVolume", "Start"} : RingTakes(c))
                => ring'.sample_buffer = ring.sample_buffer
          /\ (\E c \in RingCommands : RingTakes(c))
                /\ ring'.sample_buffer # ring.sample_buffer
                => RingTakes("Stop") /\ ring'.sample_buffer = << >>]_vars
    /\ [](ring.checked => ring.first_after_resume = ring.expected)

\* playback was paused after sample 1 had been written, more samples were
\* pushed during the pause, and the first write after the Resume began with
\* the sample that was at the front at the Pause
C39_Witness ==
    /\ ring.checked
    /\ ring.first_after_resume = ring.expected
    /\ ring.expected > 1
    /\ ring.pushed > ring.expected + 1

(***************************************************************************)
(* Properties of the AudioBuffer                                           *)
(***************************************************************************)

\* C13 as stated: once next() has returned None, the count of values it
\* returned before that first None equals the total number of samples
\* appended.
C13_ReadsBeforeNoneAreAllAppended ==
    bufLog.none => bufLog.noneReturned = bufLog.appended

\* C13 as amended: when next() returns None, the values it returned so far are
\* as many as the samples appended so far (in particular at the first None),
\* and every value returned is the next sample in append order; samples
\* appended after a None are returned by the reads that follow.
C13_ReadsDrainWhatWasAppended ==
    /\ bufLog.none => bufLog.noneReturned = bufLog.noneAppended
    /\ (bufLog.op = "next" /\ bufLog.ret = << >>) => bufLog.returned = bufLog.appended
    /\ (bufLog.op = "next" /\ bufLog.ret # << >>) => bufLog.ret = <<bufLog.returned>>
    /\ bufLog.returned <= bufLog.appended

C13_Witness ==
    /\ bufLog.none /\ bufLog.noneAppended > 0 /\ bufLog.appended > bufLog.noneAppended
    /\ bufLog.op = "next" /\ bufLog.ret = <<bufLog.appended>>

\* C14: needs_refill() is true exactly when remaining * 1000 <
\* rate * channels * threshold_ms with remaining = length - cursor, that is
\* when the unread samples last less than threshold_ms, in every buffer state
\* and for every threshold set through set_refill_threshold.
C14_NeedsRefillFormula ==
    bufLog.op = "needs_refill" =>
        (bufLog.refill <=>
            (Len(buffer.samples) - buffer.position) * 1000
                < buffer.sample_rate * buffer.channels * buffer.refill_threshold_ms)

\* a threshold other than that of new() is set, the unread samples last
\* exactly that long, and needs_refill() said no
C14_Witness ==
    /\ bufLog.op = "needs_refill" /\ ~bufLog.refill
    /\ buffer.refill_threshold_ms \notin {0, RefillThresholdMs}
    /\ buffer.position > 0
    /\ (Len(buffer.samples) - buffer.position) * 1000
            = buffer.sample_rate * buffer.channels * buffer.refill_threshold_ms

(***************************************************************************)
(* Properties of the decoder                                               *)
(***************************************************************************)

\* C8: next() returns None only once the stream is exhausted: after a next()
\* that returned None the buffer is empty and the decoder is at end of stream
\* or failed fatally (Error, or Uninitialized because the file could not be
\* opened); it is never still Ready with packets left to decode.
C8_NoneOnlyWhenExhausted ==
    (lastOp = "next" /\ lastRet = "None") =>
        /\ is_empty(dec)
        /\ dec.state \in {"EndOfStream", "Error", "Uninitialized"}

\* the operations whose decoder calls run on the thread of the command
\* handler: play_track and seek_track build the decoder, seek it and prefill it
\* before LockFreeSymphoniaSource::new spawns the decode thread
\* (playback.rs:489-495, 546-551, 913-918; decoder.rs:77-79); next() is
\* called by the decode thread (decoder.rs:84)
CommandOps == {"play_track", "seek_track"}

\* C26: the command thread never decodes: when a play or seek handler returns,
\* the decoder it built has read no packet; every packet is read by the
\* decode thread.
C26_CommandThreadNeverDecodes ==
    lastOp \in CommandOps => dec.pkt = 0 /\ dec.samples = << >>

\* the file decodes to a sample from its very start: its first audio packet is
\* preceded only by packets fill_buffer skips, fewer than one call's budget
DecodableFromStart ==
    \E i \in 1..Len(stream) :
        /\ stream[i] = "audio"
        /\ \A j \in 1..(i - 1) : stream[j] \in {"empty", "other", "bad", "reset"}
        /\ Cardinality({j \in 1..(i - 1) : stream[j] = "empty"}) < MaxPacketsPerFill

\* C9 as stated: a seek to t=0 made at EndOfStream leaves the decoder Ready.
C9_SeekZeroAlwaysReady ==
    (lastOp = "seek0" /\ stPath[1] = "EndOfStream") => dec.state = "Ready"

\* C9 as amended: a seek to t=0 made at EndOfStream leaves the decoder Ready
\* when the container seek succeeded and Uninitialized when it failed; in both
\* cases the next() that follows yields a sample again, provided the file
\* decodes from its start and the file could be (re)opened.
C9_SeekZeroAfterEos ==
    /\ (lastOp = "seek0" /\ stPath[1] = "EndOfStream") =>
            dec.state = (IF lastRet = "Ok" THEN "Ready" ELSE "Uninitialized")
    /\ (/\ prevOp = "seek0" /\ prevFrom = "EndOfStream"
        /\ lastOp = "next" /\ dec.state # "Uninitialized"
        /\ DecodableFromStart)
            => lastRet = "Some"

C9_Witness ==
    /\ prevOp = "seek0" /\ prevFrom = "EndOfStream"
    /\ lastOp = "next" /\ lastRet = "Some"
    /\ stPath[1] = "Ready"

C12_SeekFailureNotSilent ==
    (/\ lastOp \in {"play_track", "seek_track"} /\ lastRet = "Ok"
     /\ ts_in_range(start_pos) /\ dec.format) =>
        /\ dec.current_sample = start_pos
        /\ FramesBefore(dec.pkt) >= start_pos

\* C15: the AudioBuffer of the decoder is fixed-capacity: whatever sequence of
\* prefill, fill_buffer, next and seek calls drives its append, next and clear,
\* its store never holds more samples than the capacity passed to new().
C15_StoreWithinCapacity ==
    Len(dec.samples) <= Capacity

\* C18: prefill_buffer terminates within its budget of MaxPrefillAttempts
\* calls of fill_buffer, and when it returns Err fewer than 50% of the
\* capacity is buffered: a fill error met inside the budget with at least 50%
\* buffered does not make it fail.
C18_PrefillFailsOnlyBelowHalf ==
    lastOp = "prefill" =>
        /\ fillCalls <= MaxPrefillAttempts
        /\ lastRet = "Err" => remaining(dec) < (Capacity * 50) \div 100
        /\ (dec.state = "Error" /\ remaining(dec) >= (Capacity * 50) \div 100) =>
                lastRet = "Ok"

\* a fill error came after more than PrefillErrAttempts attempts with at least
\* 50% buffered, and prefill_buffer spent its budget and returned Ok
C18_Witness ==
    /\ lastOp = "prefill" /\ lastRet = "Ok"
    /\ stPath = <<"Uninitialized", "Ready", "Error">>
    /\ dec.pkt = LateErrorLen
    /\ fillCalls = MaxPrefillAttempts
    /\ remaining(dec) >= (Capacity * 50) \div 100

\* the edges decoding may take
DecodeEdges ==
    {<<"Uninitialized", "Ready">>, <<"Ready", "EndOfStream">>, <<"Ready", "Error">>}

\* C10: prefill, fill and next move the state only along Uninitialized ->
\* Ready, Ready -> EndOfStream and Ready -> Error; they never leave
\* EndOfStream or Error, and fill_buffer changes nothing at all in them.
C10_StateMachine ==
    [][/\ lastOp' \in {"prefill", "fill", "next"} =>
            /\ \A i \in 1..(Len(stPath') - 1) :
                    <<stPath'[i], stPath'[i + 1]>> \in DecodeEdges
            /\ stPath'[1] = dec.state /\ stPath'[Len(stPath')] = dec'.state
            /\ dec.state \in {"EndOfStream", "Error"} => dec'.state = dec.state
       /\ (lastOp' = "fill" /\ dec.state \in {"EndOfStream", "Error"}) => dec' = dec
      ]_decVars

C10_Witness ==
    /\ lastOp = "fill" /\ stPath = <<"EndOfStream">>
    /\ prevOp = "next" /\ prevFrom = "Uninitialized"
    /\ dec.pkt < Len(stream)

(***************************************************************************)
(* LockFreeSymphoniaSource (decoder.rs:60-124)                             *)
(***************************************************************************)

\* LockFreeSymphoniaSource::new (decoder.rs:72-91)
SrcInit ==
    /\ srcDecoder = 0
    /\ batch = << >>
    /\ batchPos = 0
    /\ threadPc = "loop"
    /\ channel = << >>
    /\ stop_flag = FALSE
    /\ chunk_buffer = << >>
    /\ chunk_pos = 0
    /\ count = 0
    /\ srcPc = "idle"
    /\ yielded = << >>
    /\ nextRet = "none yet"

\* the samples `n` calls of decoder.next() yield after `done` were yielded
DecodeBatch(done, n) == [i \in 1..Min(n, SourceLen - done) |-> done + i]

\* the top of the loop without its test of the stop flag
ThreadLoop_NoFlagTest ==
    /\ UNCHANGED <<decVars, sysVars>>
    /\ threadPc = "loop"
    /\ threadPc' = "decode"
    /\ UNCHANGED <<srcDecoder, batch, batchPos, channel, stop_flag, chunk_buffer,
                   chunk_pos, count, srcPc, yielded, nextRet>>

\* decode thread, the top of its loop: the test of the stop flag
\* (decoder.rs:82)
ThreadLoop ==
    /\ UNCHANGED <<decVars, sysVars>>
    /\ threadPc = "loop"
    /\ threadPc' = IF stop_flag THEN "exited" ELSE "decode"
    /\ UNCHANGED <<srcDecoder, batch, batchPos, channel, stop_flag, chunk_buffer,
                   chunk_pos, count, srcPc, yielded, nextRet>>

\* decode thread: a batch is decoded; an empty one ends the thread
\* (decoder.rs:83-85)
ThreadDecode ==
    /\ UNCHANGED <<decVars, sysVars>>
    /\ threadPc = "decode"
    /\ LET b == DecodeBatch(srcDecoder, BatchSize)
       IN  /\ batch' = b
           /\ srcDecoder' = srcDecoder + Len(b)
           /\ threadPc' = IF b = << >> THEN "exited" ELSE "send"
    /\ batchPos' = 0
    /\ UNCHANGED <<channel, stop_flag, chunk_buffer, chunk_pos, count, srcPc,
                   yielded, nextRet>>

\* decode thread, one sender.send of the batch (decoder.rs:86); a send to a
\* dropped receiver fails and ends the for loop, not the thread
ThreadSend ==
    /\ UNCHANGED <<decVars, sysVars>>
    /\ threadPc = "send"
    /\ IF srcPc = "dropped"
       THEN /\ threadPc' = "loop"
            /\ UNCHANGED <<channel, batchPos>>
       ELSE /\ channel' = Append(channel, batch[batchPos + 1])
            /\ batchPos' = batchPos + 1
            /\ threadPc' = IF batchPos + 1 = Len(batch) THEN "loop" ELSE "send"
    /\ UNCHANGED <<srcDecoder, batch, stop_flag, chunk_buffer, chunk_pos, count,
                   srcPc, yielded, nextRet>>

\* how a next() call ends: ret is the sample returned, or 0 for None
Returned(ret) ==
    /\ yielded' = IF ret = 0 THEN yielded ELSE Append(yielded, ret)
    /\ nextRet' = IF ret = 0 THEN "None" ELSE "Some"
    /\ srcPc' = "idle"

\* next(), served from chunk_buffer (decoder.rs:98), else a refill starts
\* (decoder.rs:99-100)
SrcNext ==
    /\ UNCHANGED <<decVars, sysVars>>
    /\ srcPc = "idle"
    /\ IF chunk_pos < Len(chunk_buffer)
       THEN /\ Returned(chunk_buffer[chunk_pos + 1])
            /\ chunk_pos' = chunk_pos + 1
            /\ UNCHANGED <<chunk_buffer, count>>
       ELSE /\ chunk_buffer' = << >>
            /\ chunk_pos' = 0
            /\ count' = 0
            /\ srcPc' = "refill"
            /\ UNCHANGED <<yielded, nextRet>>
    /\ UNCHANGED <<srcDecoder, batch, batchPos, threadPc, channel, stop_flag>>

\* the refill returns: the first sample of chunk_buffer, or None (decoder.rs:111)
RefillReturn ==
    IF chunk_buffer # << >>
    THEN Returned(chunk_buffer[1]) /\ chunk_pos' = 1
    ELSE Returned(0) /\ chunk_pos' = 0

\* refill: try_recv, or recv_timeout, received a sample (decoder.rs:103, 106)
SrcRecv ==
    /\ UNCHANGED <<decVars, sysVars>>
    /\ srcPc = "refill"
    /\ channel # << >>
    /\ channel' = Tail(channel)
    /\ count' = count + 1
    /\ IF count + 1 >= ChunkLimit
       THEN /\ chunk_buffer' = Append(chunk_buffer, Head(channel))
            /\ Returned(chunk_buffer'[1])
            /\ chunk_pos' = 1
       ELSE /\ chunk_buffer' = Append(chunk_buffer, Head(channel))
            /\ UNCHANGED <<chunk_pos, srcPc, yielded, nextRet>>
    /\ UNCHANGED <<srcDecoder, batch, batchPos, threadPc, stop_flag>>

\* refill: the channel is empty (decoder.rs:104-108). With samples in hand
\* the refill ends; with none, recv_timeout(100us) runs output (or reports the
\* sender gone) and the refill ends all the same
SrcEmpty ==
    /\ UNCHANGED <<decVars, sysVars>>
    /\ srcPc = "refill"
    /\ channel = << >>
    /\ RefillReturn
    /\ UNCHANGED <<srcDecoder, batch, batchPos, threadPc, channel, stop_flag,
                   chunk_buffer, count>>

\* Drop for LockFreeSymphoniaSource (decoder.rs:122-124); the receiver goes
\* with the struct
SrcDrop ==
    /\ UNCHANGED <<decVars, sysVars>>
    /\ srcPc = "idle"
    /\ stop_flag' = TRUE
    /\ srcPc' = "dropped"
    /\ channel' = << >>
    /\ UNCHANGED <<srcDecoder, batch, batchPos, threadPc, chunk_buffer, chunk_pos,
                   count, yielded, nextRet>>

SrcNextStep ==
    ThreadLoop \/ ThreadDecode \/ ThreadSend \/ SrcNext \/ SrcRecv \/ SrcEmpty \/ SrcDrop

\* the decode thread is a thread of its own (decoder.rs:79): it keeps running
\* whatever the consumer does
ThreadStep == ThreadLoop \/ ThreadDecode \/ ThreadSend

\* C7: next() never returns None while the decode thread is still running or
\* sent samples wait in the channel: when a call returns None the thread has
\* exited, the channel is empty and every sample of the file was yielded.
C7_NoneOnlyAfterProducerDone ==
    [][(nextRet' = "None" /\ srcPc = "refill" /\ srcPc' = "idle") =>
            /\ threadPc = "exited"
            /\ channel = << >>
            /\ yielded = [i \in 1..SourceLen |-> i]]_srcVars

\* C17: once the LockFreeSymphoniaSource is dropped the decode thread
\* terminates, with nobody receiving from the channel, wherever it was: about
\* to start a batch, decoding one, or sending one; and from the top of its
\* loop it exits without decoding anything more.
C17_DropEndsDecodeThread ==
    /\ (srcPc = "dropped") ~> (threadPc = "exited")
    /\ [][(srcPc = "dropped" /\ threadPc = "loop" /\ threadPc' # "loop") =>
                threadPc' = "exited" /\ srcDecoder' = srcDecoder]_vars

\* the source was dropped while a batch was being sent, and the thread has
\* exited with samples of the file left undecoded
C17_Witness ==
    /\ srcPc = "dropped" /\ threadPc = "exited"
    /\ batchPos < Len(batch)
    /\ srcDecoder < SourceLen

(***************************************************************************)
(* Exclusive-mode playback (lib.rs, main.rs, audio/playback.rs,            *)
(* audio/commands.rs, audio/wasapi/exclusive.rs)                           *)
(*                                                                         *)
(* Threads: "cmd" runs the command handlers one after another, worker w is *)
(* the decode_and_push_to_wasapi thread spawned with my_id = w, "actor" is *)
(* audio_thread_main of the live device handle.  A sample is <<w, i>>: the *)
(* i-th sample the source of session w yields; <<0, 0>> is silence.        *)
(***************************************************************************)
Workers == 1..MaxGen

CmdThread == <<"cmd", 0>>
ActorThread == <<"actor", 0>>
WorkerThread(w) == <<"worker", w>>
\* the value of a mutex nobody holds
Free == <<"free", 0>>

PlaybackState == {"Uninitialized", "Stopped", "Playing", "Paused"}

\* exclusive.rs:16-25  the commands a handle sends (no method sends
\* ClearBuffer: clear_buffer() empties the ring buffer itself)
AudioCommand ==
    {"Initialize", "Start", "Stop", "Pause", "Resume", "SetVolume", "Shutdown"}

Silence == <<0, 0>>

NoWorker ==
    [pc |-> "none", pos |-> 0, n |-> 0, eof |-> FALSE, born |-> 0, why |-> ""]

\* main.rs:66-103 with exclusive mode enabled in the configuration and the
\* device opened by create_exclusive_mode_player (main.rs:246-270)
SysInit ==
    /\ player = [decode_thread_stop |-> FALSE, decode_thread_id |-> 0,
                 exclusive_mode |-> TRUE, current_path |-> FALSE,
                 wasapi_player |-> 1]
    /\ wasapi_lock = Free
    /\ handle = [id |-> 1, command_q |-> << >>, response_q |-> << >>,
                 state |-> "Stopped", sample_buffer |-> << >>,
                 is_running |-> TRUE]
    /\ actor = [pc |-> "loop", audio_client |-> TRUE, is_playing |-> FALSE]
    /\ cmd = [pc |-> "idle", op |-> "", new_thread_id |-> 0]
    /\ worker = [w \in Workers |-> NoWorker]
    /\ log = [maxPusher |-> 0, written |-> [w \in Workers |-> 0],
              in_order |-> TRUE, write |-> "ok"]
    /\ budget = [switch |-> 0, ctl |-> 0, shared |-> 0]

Max(a, b) == IF a > b THEN a ELSE b

\* the bounded command channel has room (a send does not block)
Room == Len(handle.command_q) < CmdQueueCap

\* the actor dropped command_rx: a send returns Err at once
ReceiverGone == actor.pc = "exited"

\* command_tx.send(c) once it can complete
Sent(c) == IF ReceiverGone THEN handle.command_q
           ELSE Append(handle.command_q, c)

\* exclusive.rs:109-131  start / stop / pause / resume: send, then set state
StateAfter(c) ==
    IF ReceiverGone THEN handle.state
    ELSE CASE c \in {"Start", "Resume"} -> "Playing"
           [] c = "Stop" -> "Stopped"
           [] c = "Pause" -> "Paused"
           [] OTHER -> handle.state

HandleSend(c) ==
    [handle EXCEPT !.command_q = Sent(c), !.state = StateAfter(c)]

(***************************************************************************)
(* decode_and_push_to_wasapi (playback.rs:663-824)                         *)
(***************************************************************************)
\* playback.rs:680, 728, 793, 802, 811  stop_flag || thread_id != my_id
Stale(w) == player.decode_thread_stop \/ player.decode_thread_id # w

Exit(w, why) == [NoWorker EXCEPT !.pc = "done", !.why = why,
                                 !.born = worker[w].born]

\* the chunk worker w read last (interleaved, then final_out)
Chunk(w) ==
    [j \in 1..worker[w].n |-> <<w, worker[w].pos - worker[w].n + j>>]

WorkerOnly(w, rec) ==
    /\ worker' = [worker EXCEPT ![w] = rec]
    /\ UNCHANGED <<player, wasapi_lock, handle, actor, cmd, log, budget,
                   decVars, srcVars>>

\* Once a worker is stale it stays stale: the stop flag is only set together
\* with an increment of the generation id (playback.rs:523-524), and the id
\* never returns to an earlier value.

\* playback.rs:680, 728-738  the flag tests at entry and at the loop head (680
\* repeats the test of 728 before anything was done), wasapi.lock().is_none(),
\* then up to samples_needed calls of source.next(); a None before the chunk is
\* full sets eof (the end of the stream, or a receive timeout of the source,
\* decoder.rs:106)
WTop(w) ==
    /\ worker[w].pc = "top"
    /\ IF Stale(w)
       THEN WorkerOnly(w, Exit(w, "stale"))
       ELSE /\ wasapi_lock = Free
            /\ IF player.wasapi_player = 0
               THEN WorkerOnly(w, Exit(w, "no_device"))
               ELSE \E k \in 0..Min(ChunkSamples, StreamLen - worker[w].pos) :
                       WorkerOnly(w, IF k = 0 THEN Exit(w, "empty")
                                     ELSE [worker[w] EXCEPT
                                              !.pc = "bo",
                                              !.pos = @ + k,
                                              !.n = k,
                                              !.eof = (k < ChunkSamples)])

BufSize == IF player.wasapi_player = 0 THEN 0 ELSE Len(handle.sample_buffer)

\* playback.rs:792-801  one turn of the back-pressure loop without its flag
\* test
WBackoff_NoFlagTest(w) ==
    /\ worker[w].pc = "bo"
    /\ wasapi_lock = Free
    /\ WorkerOnly(w, [worker[w] EXCEPT
                         !.pc = IF BufSize < HighWater THEN "chk" ELSE "bo"])

\* playback.rs:792-802  one turn of the back-pressure loop: a stale worker
\* leaves it and then the outer loop at 802; otherwise buf_size is read under
\* the lock and the worker sleeps and retries while the ring buffer is at the
\* high-water mark (emit_position at 741 and 799 takes the same lock for a
\* read only)
WBackoff(w) ==
    /\ worker[w].pc = "bo"
    /\ IF Stale(w)
       THEN WorkerOnly(w, Exit(w, "stale"))
       ELSE /\ wasapi_lock = Free
            /\ WorkerOnly(w, [worker[w] EXCEPT
                                 !.pc = IF BufSize < HighWater THEN "chk"
                                        ELSE "bo"])

\* playback.rs:802
WCheck(w) ==
    /\ worker[w].pc = "chk"
    /\ WorkerOnly(w, IF Stale(w) THEN Exit(w, "stale")
                     ELSE [worker[w] EXCEPT !.pc = "push"])

AfterPush(w) ==
    IF worker[w].eof THEN [worker[w] EXCEPT !.pc = "drain", !.n = 0]
    ELSE [worker[w] EXCEPT !.pc = "top", !.n = 0]

\* playback.rs:804-806 and exclusive.rs:139-144  push_samples under the lock
WPush(w) ==
    /\ worker[w].pc = "push"
    /\ wasapi_lock = Free
    /\ worker' = [worker EXCEPT ![w] = AfterPush(w)]
    /\ IF player.wasapi_player = 0
       THEN UNCHANGED <<handle, log>>
       ELSE /\ handle' = [handle EXCEPT
                             !.sample_buffer = @ \o Chunk(w)]
            /\ log' = [log EXCEPT !.maxPusher = Max(@, w)]
    /\ UNCHANGED <<player, wasapi_lock, actor, cmd, budget, decVars, srcVars>>

\* playback.rs:810-816  one turn of the drain loop: a stale worker leaves it
\* and fails the test at 816; otherwise buf_size is read under the lock
WDrain(w) ==
    /\ worker[w].pc = "drain"
    /\ IF Stale(w)
       THEN WorkerOnly(w, Exit(w, "stale"))
       ELSE /\ wasapi_lock = Free
            /\ WorkerOnly(w, [worker[w] EXCEPT
                                 !.pc = IF BufSize = 0 THEN "fin"
                                        ELSE "drain"])

\* playback.rs:816
WFin(w) ==
    /\ worker[w].pc = "fin"
    /\ WorkerOnly(w, IF Stale(w) THEN Exit(w, "stale")
                     ELSE [worker[w] EXCEPT !.pc = "stop"])

\* playback.rs:817-820  lock, p.stop(), unlock, emit_track_ended, leave the
\* loop; the send blocks, with the lock held, while the command channel is full
WStop(w) ==
    /\ worker[w].pc = "stop"
    /\ wasapi_lock = Free
    /\ IF player.wasapi_player = 0
       THEN /\ worker' = [worker EXCEPT ![w] = Exit(w, "ended")]
            /\ UNCHANGED <<wasapi_lock, handle>>
       ELSE IF Room \/ ReceiverGone
       THEN /\ worker' = [worker EXCEPT ![w] = Exit(w, "ended")]
            /\ handle' = HandleSend("Stop")
            /\ UNCHANGED wasapi_lock
       ELSE /\ worker' = [worker EXCEPT ![w].pc = "stop_send"]
            /\ wasapi_lock' = WorkerThread(w)
            /\ UNCHANGED handle
    /\ UNCHANGED <<player, actor, cmd, log, budget, decVars, srcVars>>

\* exclusive.rs:116-117, playback.rs:817-820  the blocked send completes, the
\* guard is dropped, track-ended is emitted
WStopSend(w) ==
    /\ worker[w].pc = "stop_send"
    /\ Room \/ ReceiverGone
    /\ worker' = [worker EXCEPT ![w] = Exit(w, "ended")]
    /\ handle' = HandleSend("Stop")
    /\ wasapi_lock' = Free
    /\ UNCHANGED <<player, actor, cmd, log, budget, decVars, srcVars>>

(***************************************************************************)
(* audio_thread_main (wasapi/exclusive.rs:197-377)                         *)
(***************************************************************************)
\* One turn of the loop handles at most one command and then, while playing,
\* calls process_audio_output, whose wait for the device event can time output
\* (exclusive.rs:354): a turn is a command step, an output step, or both.
ActorVars(h, a) ==
    /\ handle' = h
    /\ actor' = a
    /\ UNCHANGED <<player, wasapi_lock, cmd, worker, log, budget,
                   decVars, srcVars>>

Receives(c) ==
    /\ actor.pc = "loop"
    /\ handle.is_running
    /\ handle.command_q # << >>
    /\ Head(handle.command_q) = c

Rest == [handle EXCEPT !.command_q = Tail(@)]

\* Initialize that answers only when the device opened
ActorInitialize_SilentFailure ==
    /\ Receives("Initialize")
    /\ \E ok \in BOOLEAN :
          ActorVars([Rest EXCEPT !.response_q =
                        IF ok THEN Append(@, "Initialized") ELSE @],
                    [actor EXCEPT !.audio_client = @ \/ ok])

\* exclusive.rs:220-231, 295-339  Initialize: open the device and answer
ActorInitialize ==
    /\ Receives("Initialize")
    /\ \E ok \in BOOLEAN :
          ActorVars([Rest EXCEPT !.response_q =
                        Append(@, IF ok THEN "Initialized" ELSE "InitFailed")],
                    [actor EXCEPT !.audio_client = @ \/ ok])

\* exclusive.rs:232-239, 255-262  Start and Resume: start_stream may fail
ActorStart ==
    /\ Receives("Start") \/ Receives("Resume")
    /\ \E ok \in BOOLEAN :
          IF actor.audio_client /\ ok
          THEN /\ handle' = [Rest EXCEPT !.state = "Playing"]
               /\ actor' = [actor EXCEPT !.is_playing = TRUE]
          ELSE /\ handle' = Rest
               /\ UNCHANGED actor
    /\ log' = [log EXCEPT !.write = IF @ = "failed" THEN "restarted" ELSE @]
    /\ UNCHANGED <<player, wasapi_lock, cmd, worker, budget, decVars, srcVars>>

\* exclusive.rs:240-247  Stop also clears the ring buffer
ActorStop ==
    /\ Receives("Stop")
    /\ IF actor.audio_client
       THEN ActorVars([Rest EXCEPT !.state = "Stopped",
                                   !.sample_buffer = << >>],
                      [actor EXCEPT !.is_playing = FALSE])
       ELSE ActorVars(Rest, actor)

\* exclusive.rs:248-254
ActorPause ==
    /\ Receives("Pause")
    /\ IF actor.audio_client
       THEN ActorVars([Rest EXCEPT !.state = "Paused"],
                      [actor EXCEPT !.is_playing = FALSE])
       ELSE ActorVars(Rest, actor)

\* exclusive.rs:263  SetVolume only replaces current_volume
ActorSetVolume ==
    /\ Receives("SetVolume")
    /\ ActorVars(Rest, actor)

\* exclusive.rs:218, 265 with a loop that ends on Shutdown only
ActorExit_OnShutdownOnly ==
    /\ actor.pc = "loop"
    /\ handle.command_q # << >>
    /\ Head(handle.command_q) = "Shutdown"
    /\ ActorVars([handle EXCEPT !.command_q = << >>],
                 [actor EXCEPT !.pc = "exited", !.is_playing = FALSE])

\* exclusive.rs:218, 265, 288-292  the loop ends when is_running is false or
\* on Shutdown; command_rx is dropped with what it still holds
ActorExit ==
    /\ actor.pc = "loop"
    /\ ~handle.is_running \/ Receives("Shutdown")
    /\ ActorVars([handle EXCEPT !.command_q = << >>],
                 [actor EXCEPT !.pc = "exited", !.is_playing = FALSE])

\* the ring buffer without its first k samples, as it is (a pop that removes
\* nothing)
PopFront_Keeps(buf, k) == buf

\* exclusive.rs:362  pop_front, k times
PopFront(buf, k) == SubSeq(buf, k + 1, Len(buf))

\* exclusive.rs:361-363  samples_needed samples, silence once the ring is empty
OutputSamples(buf, needed) ==
    [j \in 1..needed |-> IF j <= Len(buf) THEN buf[j] ELSE Silence]

\* the highest index of session w among the samples written
IndexesOf(w, out) == {out[j][2] : j \in {i \in 1..Len(out) : out[i][1] = w}}

HighestOf(w, out, floor) ==
    IF IndexesOf(w, out) = {} THEN floor
    ELSE Max(floor, CHOOSE m \in IndexesOf(w, out) :
                        \A x \in IndexesOf(w, out) : x <= m)

\* the samples of one device write continue each session in order: every
\* index is above what was written of that session before
InOrder(out, written) ==
    \A j \in 1..Len(out) :
        out[j] # Silence =>
            /\ out[j][2] > written[out[j][1]]
            /\ \A i \in 1..(j - 1) :
                  out[i][1] = out[j][1] => out[i][2] < out[j][2]

\* exclusive.rs:369  what the device has been given: per session the highest
\* index written, and whether every write so far continued its sessions in
\* order
Written(out) ==
    [log EXCEPT !.written = [w \in Workers |-> HighestOf(w, out, @[w])],
                !.in_order = @ /\ InOrder(out, log.written)]

\* process_audio_output whose failed write ends the actor
ActorOut_FailureExits ==
    /\ actor.pc = "loop"
    /\ handle.is_running
    /\ actor.is_playing
    /\ \E needed \in 1..MaxDeviceSamples, ok \in BOOLEAN :
          /\ handle' = [handle EXCEPT
                           !.sample_buffer = PopFront(@, Min(needed, Len(@))),
                           !.state = IF ok THEN @ ELSE "Stopped"]
          /\ actor' = [actor EXCEPT !.is_playing = ok,
                                    !.pc = IF ok THEN @ ELSE "exited"]
          /\ log' = IF ok
                    THEN [Written(OutputSamples(handle.sample_buffer, needed))
                             EXCEPT !.write = "ok"]
                    ELSE [log EXCEPT !.write = "failed"]
    /\ UNCHANGED <<player, wasapi_lock, cmd, worker, budget, decVars, srcVars>>

\* exclusive.rs:341-377  process_audio_output: frames_available frames are
\* taken from the ring buffer and written; a failed write stops playback
ActorOut ==
    /\ actor.pc = "loop"
    /\ handle.is_running
    /\ actor.is_playing
    /\ \E needed \in 1..MaxDeviceSamples, ok \in BOOLEAN :
          /\ handle' = [handle EXCEPT
                           !.sample_buffer = PopFront(@, Min(needed, Len(@))),
                           !.state = IF ok THEN @ ELSE "Stopped"]
          /\ actor' = [actor EXCEPT !.is_playing = ok]
          /\ log' = IF ok
                    THEN [Written(OutputSamples(handle.sample_buffer, needed))
                             EXCEPT !.write = "ok"]
                    ELSE [log EXCEPT !.write = "failed"]
    /\ UNCHANGED <<player, wasapi_lock, cmd, worker, budget, decVars, srcVars>>

(***************************************************************************)
(* Command handlers (audio/commands.rs, audio/playback.rs:472-586, 910-994) *)
(* Tauri runs these synchronous commands one at a time on one thread.       *)
(***************************************************************************)
CmdIdle == [pc |-> "idle", op |-> "", position |-> "None", new_thread_id |-> 0]

CmdAt(pc) == [cmd EXCEPT !.pc = pc]

\* commands issued so far (status queries and shared-mode playback apart)
Issued == player.decode_thread_id + budget.switch + budget.ctl

\* the command thread is free and the user issues one more command
Idle == cmd.pc = "idle" /\ Issued < MaxCommands

\* playback.rs:523-524  stop flag set, generation id incremented (two SeqCst
\* stores; every test of a worker reads both and fails on either, so no thread
\* can tell the state between them from the state after them)
PlayBegin(position) ==
    /\ Idle
    /\ player.exclusive_mode
    /\ player.decode_thread_id < MaxGen
    /\ player' = [player EXCEPT !.decode_thread_stop = TRUE,
                                !.decode_thread_id = @ + 1]
    /\ cmd' = [pc |-> "p526", op |-> "play", position |-> position,
               new_thread_id |-> player.decode_thread_id + 1]
    /\ UNCHANGED <<wasapi_lock, handle, actor, worker, log, budget,
                   decVars, srcVars>>

\* commands.rs:42-48  play_track in exclusive mode, for a new track (with a
\* position it runs the code seek_track runs)
PlayTrack == PlayBegin("None")

\* commands.rs:141-148  seek_track in exclusive mode: needs a current path
SeekTrack == player.current_path /\ PlayBegin("Some")

\* playback.rs:526-527  lock wasapi_player and stop the device; the send
\* blocks, with the lock held, while the command channel is full
PlayStopDevice ==
    /\ cmd.pc = "p526"
    /\ wasapi_lock = Free
    /\ IF player.wasapi_player = 0
       THEN /\ cmd' = CmdAt("p533")
            /\ UNCHANGED <<wasapi_lock, handle>>
       ELSE IF Room \/ ReceiverGone
       THEN /\ cmd' = CmdAt("p528")
            /\ wasapi_lock' = CmdThread
            /\ handle' = HandleSend("Stop")
       ELSE /\ cmd' = CmdAt("p527")
            /\ wasapi_lock' = CmdThread
            /\ UNCHANGED handle
    /\ UNCHANGED <<player, actor, worker, log, budget, decVars, srcVars>>

\* exclusive.rs:116-117  the blocked send of stop() completes
PlayStopSend ==
    /\ cmd.pc = "p527"
    /\ Room \/ ReceiverGone
    /\ cmd' = CmdAt("p528")
    /\ handle' = HandleSend("Stop")
    /\ UNCHANGED <<player, wasapi_lock, actor, worker, log, budget,
                   decVars, srcVars>>

\* playback.rs:528-530  clear_buffer, then the guard is dropped
PlayClear_KeepsLock ==
    /\ cmd.pc = "p528"
    /\ cmd' = CmdAt("p533")
    /\ handle' = [handle EXCEPT !.sample_buffer = << >>]
    /\ UNCHANGED <<player, wasapi_lock, actor, worker, log, budget,
                   decVars, srcVars>>

PlayClear ==
    /\ cmd.pc = "p528"
    /\ cmd' = CmdAt("p533")
    /\ handle' = [handle EXCEPT !.sample_buffer = << >>]
    /\ wasapi_lock' = Free
    /\ UNCHANGED <<player, actor, worker, log, budget, decVars, srcVars>>

\* playback.rs:532-533  after the 50 ms sleep the stop flag is cleared
PlayResume ==
    /\ cmd.pc = "p533"
    /\ cmd' = CmdAt("p537")
    /\ player' = [player EXCEPT !.decode_thread_stop = FALSE]
    /\ UNCHANGED <<wasapi_lock, handle, actor, worker, log, budget,
                   decVars, srcVars>>

\* playback.rs:536-571  read the device format (Err without a device), record
\* the path, open and prefill the decoder (Err when it cannot be opened),
\* spawn the worker with my_id = new_thread_id
PlaySpawn ==
    /\ cmd.pc = "p537"
    /\ wasapi_lock = Free
    /\ IF player.wasapi_player = 0
       THEN /\ cmd' = CmdIdle
            /\ UNCHANGED <<player, worker>>
       ELSE /\ player' = [player EXCEPT
                             !.current_path = @ \/ cmd.position = "None"]
            /\ \E opened \in BOOLEAN :
                  IF opened
                  THEN /\ cmd' = [CmdAt("p580") EXCEPT !.position = "None"]
                       /\ worker' = [worker EXCEPT ![cmd.new_thread_id] =
                                        [NoWorker EXCEPT
                                            !.pc = "top",
                                            !.born = player.wasapi_player]]
                  ELSE /\ cmd' = CmdIdle
                       /\ UNCHANGED worker
    /\ UNCHANGED <<wasapi_lock, handle, actor, log, budget, decVars, srcVars>>

\* playback.rs:574-581  bounded wait for the worker, then lock wasapi_player
\* and sleep 80 ms with the lock held
PlayLock ==
    /\ cmd.pc = "p580"
    /\ wasapi_lock = Free
    /\ IF player.wasapi_player = 0
       THEN cmd' = CmdIdle /\ UNCHANGED wasapi_lock
       ELSE cmd' = CmdAt("p582") /\ wasapi_lock' = CmdThread
    /\ UNCHANGED <<player, handle, actor, worker, log, budget,
                   decVars, srcVars>>

\* playback.rs:582-585  start(), then the guard is dropped
PlayStart ==
    /\ cmd.pc = "p582"
    /\ Room \/ ReceiverGone
    /\ cmd' = CmdIdle
    /\ handle' = HandleSend("Start")
    /\ wasapi_lock' = Free
    /\ UNCHANGED <<player, actor, worker, log, budget, decVars, srcVars>>

\* commands.rs:160-190  set_audio_device in exclusive mode: the sink is stopped
\* and cleared
SetAudioDevice ==
    /\ Idle
    /\ player.exclusive_mode
    /\ budget.switch < MaxSwitch
    /\ cmd' = [CmdIdle EXCEPT !.pc = "s194", !.op = "switch"]
    /\ budget' = [budget EXCEPT !.switch = @ + 1]
    /\ UNCHANGED <<player, wasapi_lock, handle, actor, worker, log,
                   decVars, srcVars>>

\* commands.rs:194-196 and exclusive.rs:185-188  take() the old handle and drop
\* it with the lock held: is_running := false, then send Shutdown
SwitchTake ==
    /\ cmd.pc = "s194"
    /\ wasapi_lock = Free
    /\ IF player.wasapi_player = 0
       THEN /\ cmd' = CmdAt("s199")
            /\ UNCHANGED <<player, wasapi_lock, handle>>
       ELSE /\ player' = [player EXCEPT !.wasapi_player = 0]
            /\ wasapi_lock' = CmdThread
            /\ IF Room \/ ReceiverGone
               THEN /\ cmd' = CmdAt("s196j")
                    /\ handle' = [handle EXCEPT !.is_running = FALSE,
                                                !.command_q = Sent("Shutdown")]
               ELSE /\ cmd' = CmdAt("s196w")
                    /\ handle' = [handle EXCEPT !.is_running = FALSE]
    /\ UNCHANGED <<actor, worker, log, budget, decVars, srcVars>>

\* exclusive.rs:188  the blocked send of Shutdown returns (room, or the actor
\* has dropped the receiver)
SwitchShutdownSend ==
    /\ cmd.pc = "s196w"
    /\ Room \/ ReceiverGone
    /\ cmd' = CmdAt("s196j")
    /\ handle' = [handle EXCEPT !.command_q = Sent("Shutdown")]
    /\ UNCHANGED <<player, wasapi_lock, actor, worker, log, budget,
                   decVars, srcVars>>

\* exclusive.rs:191-193 and commands.rs:197  join the actor, drop the guard
SwitchJoin ==
    /\ cmd.pc = "s196j"
    /\ actor.pc = "exited"
    /\ cmd' = CmdAt("s199")
    /\ wasapi_lock' = Free
    /\ UNCHANGED <<player, handle, actor, worker, log, budget,
                   decVars, srcVars>>

\* commands.rs:199-201 and exclusive.rs:60-94  a new handle with its own
\* actor; initialize() sends Initialize
SwitchNew ==
    /\ cmd.pc = "s199"
    /\ cmd' = CmdAt("s201")
    /\ handle' = [id |-> handle.id + 1, command_q |-> <<"Initialize">>,
                  response_q |-> << >>, state |-> "Uninitialized",
                  sample_buffer |-> << >>, is_running |-> TRUE]
    /\ actor' = [pc |-> "loop", audio_client |-> FALSE, is_playing |-> FALSE]
    /\ log' = [log EXCEPT !.write = "ok"]
    /\ UNCHANGED <<player, wasapi_lock, worker, budget, decVars, srcVars>>

\* exclusive.rs:96-106 and commands.rs:201-216  the answer of the actor:
\* Initialized sets the state to Stopped; InitFailed clears exclusive_mode and
\* the new handle is dropped on return
SwitchInitialized ==
    /\ cmd.pc = "s201"
    /\ handle.response_q # << >>
    /\ IF Head(handle.response_q) = "Initialized"
       THEN /\ cmd' = CmdAt("s205")
            /\ handle' = [handle EXCEPT !.response_q = Tail(@),
                                        !.state = "Stopped"]
            /\ UNCHANGED player
       ELSE /\ cmd' = CmdAt("s213j")
            /\ player' = [player EXCEPT !.exclusive_mode = FALSE]
            /\ handle' = [handle EXCEPT !.response_q = Tail(@),
                                        !.is_running = FALSE,
                                        !.command_q = Sent("Shutdown")]
    /\ UNCHANGED <<wasapi_lock, actor, worker, log, budget, decVars, srcVars>>

\* commands.rs:205-209  install the new handle
SwitchInstall ==
    /\ cmd.pc = "s205"
    /\ wasapi_lock = Free
    /\ cmd' = CmdIdle
    /\ player' = [player EXCEPT !.wasapi_player = handle.id]
    /\ UNCHANGED <<wasapi_lock, handle, actor, worker, log, budget,
                   decVars, srcVars>>

\* exclusive.rs:191-193  Drop of the handle that failed to initialize
SwitchFailJoin ==
    /\ cmd.pc = "s213j"
    /\ actor.pc = "exited"
    /\ cmd' = CmdIdle
    /\ UNCHANGED <<player, wasapi_lock, handle, actor, worker, log, budget,
                   decVars, srcVars>>

\* commands.rs:51-128  pause_track, resume_track, set_volume: try_lock on
\* wasapi_player (nothing happens when it is held), then the handle method
Control(c) ==
    /\ Idle
    /\ budget.ctl < MaxCtl
    /\ budget' = [budget EXCEPT !.ctl = @ + 1]
    /\ IF player.exclusive_mode /\ wasapi_lock = Free
          /\ player.wasapi_player # 0
       THEN IF Room \/ ReceiverGone
            THEN /\ handle' = HandleSend(c)
                 /\ UNCHANGED <<cmd, wasapi_lock>>
            ELSE /\ cmd' = [CmdIdle EXCEPT !.pc = "ctl_send", !.op = c]
                 /\ wasapi_lock' = CmdThread
                 /\ UNCHANGED handle
       ELSE UNCHANGED <<cmd, wasapi_lock, handle>>
    /\ UNCHANGED <<player, actor, worker, log, decVars, srcVars>>

PauseTrack == Control("Pause")

ResumeTrack == Control("Resume")

SetVolume == Control("SetVolume")

\* exclusive.rs:122-136  the blocked send of the handle method completes
ControlSend ==
    /\ cmd.pc = "ctl_send"
    /\ Room \/ ReceiverGone
    /\ cmd' = CmdIdle
    /\ handle' = HandleSend(cmd.op)
    /\ wasapi_lock' = Free
    /\ UNCHANGED <<player, actor, worker, log, budget, decVars, srcVars>>

\* playback.rs:940-994  get_status, check_track_finished: try_lock only, no
\* state is written
GetStatus ==
    /\ cmd.pc = "idle"
    /\ UNCHANGED vars

\* playback.rs:472-517  play_track in shared mode (the sink and its source are
\* outside this model)
PlayTrackShared ==
    /\ cmd.pc = "idle"
    /\ ~player.exclusive_mode
    /\ budget.shared < MaxShared
    /\ budget' = [budget EXCEPT !.shared = @ + 1]
    /\ player' = [player EXCEPT !.current_path = TRUE]
    /\ UNCHANGED <<wasapi_lock, handle, actor, cmd, worker, log,
                   decVars, srcVars>>

\* commands.rs:141-148 and playback.rs:910-937  seek_track in shared mode
SeekTrackShared ==
    /\ cmd.pc = "idle"
    /\ ~player.exclusive_mode
    /\ player.current_path
    /\ budget.shared < MaxShared
    /\ budget' = [budget EXCEPT !.shared = @ + 1]
    /\ UNCHANGED <<player, wasapi_lock, handle, actor, cmd, worker, log,
                   decVars, srcVars>>

\* commands.rs:229-257  set_audio_device in shared mode: a new sink is opened
\* and the old one stopped
SwitchShared ==
    /\ cmd.pc = "idle"
    /\ ~player.exclusive_mode
    /\ budget.shared < MaxShared
    /\ budget' = [budget EXCEPT !.shared = @ + 1]
    /\ cmd' = [CmdIdle EXCEPT !.pc = "h259", !.op = "switch_shared"]
    /\ UNCHANGED <<player, wasapi_lock, handle, actor, worker, log,
                   decVars, srcVars>>

\* commands.rs:259-279  wasapi_player := None under its lock, the new sink is
\* installed, play_track is called again when a path is loaded
SwitchSharedInstall ==
    /\ cmd.pc = "h259"
    /\ wasapi_lock = Free
    /\ cmd' = CmdIdle
    /\ player' = [player EXCEPT !.wasapi_player = 0]
    /\ UNCHANGED <<wasapi_lock, handle, actor, worker, log, budget,
                   decVars, srcVars>>

(***************************************************************************)
(* Locks and waiting                                                       *)
(***************************************************************************)
Threads == {CmdThread, ActorThread} \cup {WorkerThread(w) : w \in Workers}

Live(w) == worker[w].pc \notin {"none", "done"}

LockRank ==
    [sink |-> 1, target_volume |-> 2, current_path |-> 3, exclusive_mode |-> 4,
     wasapi_player |-> 5, state |-> 6, sample_buffer |-> 7]

\* The mutexes the next step of the command thread acquires, each sequence in
\* acquisition order with the earlier ones still held.
CmdLockChains ==
    CASE cmd.pc = "idle" ->
            { <<"exclusive_mode">>,                   \* commands.rs:43, 143, 168
              <<"current_path">>,                     \* commands.rs:142
              <<"target_volume">>,                    \* commands.rs:105
              <<"wasapi_player", "state">>,           \* commands.rs:60-62, 84-86
              <<"wasapi_player">>,                    \* commands.rs:116
              <<"sink">>,                             \* commands.rs:67, 187
              <<"sink", "target_volume">>,            \* playback.rs:475-479
              <<"sink", "current_path">> }            \* commands.rs:252-256
      [] cmd.pc \in {"p526", "p527", "p582", "ctl_send"} ->
            { <<"wasapi_player", "state">> }          \* playback.rs:526-527
      [] cmd.pc = "p528" ->
            { <<"wasapi_player", "sample_buffer">> }  \* playback.rs:528
      [] cmd.pc = "p537" ->
            { <<"wasapi_player">>, <<"current_path">> } \* playback.rs:537-542
      [] cmd.pc = "s201" ->
            { <<"state">>, <<"exclusive_mode">> }     \* exclusive.rs:100
      [] cmd.pc \in {"p580", "s194", "s205", "h259"} ->
            { <<"wasapi_player">> }
      [] OTHER -> {}

\* playback.rs:728, 794, 804, 812, 817
WorkerLockChains(w) ==
    CASE worker[w].pc = "top" -> { <<"wasapi_player">> }
      [] worker[w].pc \in {"bo", "push", "drain"} ->
            { <<"wasapi_player", "sample_buffer">> }
      [] worker[w].pc \in {"stop", "stop_send"} ->
            { <<"wasapi_player", "state">> }
      [] OTHER -> {}

\* exclusive.rs:236, 244-245, 252, 259, 359-371: one mutex at a time
ActorLockChains ==
    IF actor.pc = "exited" THEN {} ELSE { <<"state">>, <<"sample_buffer">> }

LockChains(t) ==
    IF t = CmdThread THEN CmdLockChains
    ELSE IF t = ActorThread THEN ActorLockChains
    ELSE WorkerLockChains(t[2])

\* program points inside a critical section of wasapi_player
HoldsWasapi(t) ==
    IF t = CmdThread
    THEN cmd.pc \in {"p527", "p528", "p582", "s196w", "s196j", "ctl_send"}
    ELSE IF t = ActorThread THEN FALSE
    ELSE worker[t[2]].pc = "stop_send"

CmdWaits ==
    CASE cmd.pc \in {"p526", "p537", "p580", "s194", "s205", "h259"}
            /\ wasapi_lock # Free -> "lock"
      [] cmd.pc \in {"p527", "p582", "s196w", "ctl_send"}
            /\ ~(Room \/ ReceiverGone) -> "room"
      [] cmd.pc = "s201" /\ handle.response_q = << >> -> "response"
      [] cmd.pc \in {"s196j", "s213j"} /\ actor.pc # "exited" -> "join"
      [] OTHER -> "nothing"

WorkerWaits(w) ==
    CASE worker[w].pc \in {"top", "bo", "drain"} /\ ~Stale(w)
            /\ wasapi_lock # Free -> "lock"
      [] worker[w].pc \in {"push", "stop"} /\ wasapi_lock # Free -> "lock"
      [] worker[w].pc = "stop_send" /\ ~(Room \/ ReceiverGone) -> "room"
      [] OTHER -> "nothing"

\* what thread t cannot go on without
Waits(t) ==
    IF t = CmdThread THEN CmdWaits
    ELSE IF t = ActorThread THEN "nothing"
    ELSE WorkerWaits(t[2])

\* the actor is about to do what a thread waits for: take a command off the
\* full channel or drop the receiver (218, 219), answer Initialize (320-336),
\* or leave its loop (218)
ActorServes(what) ==
    /\ actor.pc = "loop"
    /\ CASE what = "room" -> TRUE
         [] what = "response" ->
               /\ handle.is_running
               /\ \E i \in 1..Len(handle.command_q) :
                     handle.command_q[i] = "Initialize"
         [] what = "join" -> ~handle.is_running
         [] OTHER -> FALSE

RECURSIVE CanProceed(_, _)
CanProceed(t, seen) ==
    IF Waits(t) = "nothing" THEN TRUE
    ELSE IF Waits(t) = "lock"
    THEN /\ wasapi_lock \notin seen
         /\ CanProceed(wasapi_lock, seen \cup {wasapi_lock})
    ELSE ActorServes(Waits(t))

(***************************************************************************)
(* Next-state relations                                                    *)
(***************************************************************************)
WorkerStep(w) ==
    \/ WTop(w) \/ WBackoff(w) \/ WCheck(w) \/ WPush(w) \/ WDrain(w)
    \/ WFin(w) \/ WStop(w) \/ WStopSend(w)

ActorStep ==
    \/ ActorInitialize \/ ActorStart \/ ActorStop \/ ActorPause
    \/ ActorSetVolume \/ ActorExit \/ ActorOut

\* the steps that carry a started handler to its return
HandlerStep ==
    \/ PlayStopDevice \/ PlayStopSend \/ PlayClear \/ PlayResume \/ PlaySpawn
    \/ PlayLock \/ PlayStart \/ SwitchTake \/ SwitchShutdownSend \/ SwitchJoin
    \/ SwitchNew \/ SwitchInitialized \/ SwitchInstall \/ SwitchFailJoin
    \/ ControlSend \/ SwitchSharedInstall

Next ==
    \/ PlayTrack
    \/ SeekTrack
    \/ PlayStopDevice
    \/ PlayStopSend
    \/ PlayClear
    \/ PlayResume
    \/ PlaySpawn
    \/ PlayLock
    \/ PlayStart
    \/ SetAudioDevice
    \/ SwitchTake
    \/ SwitchShutdownSend
    \/ SwitchJoin
    \/ SwitchNew
    \/ SwitchInitialized
    \/ SwitchInstall
    \/ SwitchFailJoin
    \/ PauseTrack
    \/ ResumeTrack
    \/ SetVolume
    \/ ControlSend
    \/ GetStatus
    \/ PlayTrackShared
    \/ SeekTrackShared
    \/ SwitchShared
    \/ SwitchSharedInstall
    \/ \E w \in Workers : WTop(w)
    \/ \E w \in Workers : WBackoff(w)
    \/ \E w \in Workers : WCheck(w)
    \/ \E w \in Workers : WPush(w)
    \/ \E w \in Workers : WDrain(w)
    \/ \E w \in Workers : WFin(w)
    \/ \E w \in Workers : WStop(w)
    \/ \E w \in Workers : WStopSend(w)
    \/ ActorInitialize
    \/ ActorStart
    \/ ActorStop
    \/ ActorPause
    \/ ActorSetVolume
    \/ ActorExit
    \/ ActorOut

(***************************************************************************)
(* Properties of exclusive-mode playback                                   *)
(***************************************************************************)
\* worker w gives its chunk to the device handle in this step
Pushes(w) ==
    /\ worker[w].pc = "push"
    /\ worker'[w].pc # "push"
    /\ player.wasapi_player # 0

\* worker w sends Stop and emits track-ended in this step
Finishes(w) ==
    /\ worker[w].pc \in {"stop", "stop_send"}
    /\ worker'[w].pc = "done"

\* C1: once the worker of session N+1 has pushed its first sample into the
\* ring buffer, no worker of an earlier session pushes a sample: every push is
\* made by a worker at least as new as every worker that pushed before.
C1_NoPushAfterNewerSession ==
    [][\A w \in Workers : Pushes(w) => w >= log.maxPusher]_vars

\* C2: once decode_thread_id differs from the id of a worker, that worker
\* neither sends Stop to the device actor nor emits track-ended.
C2_StaleWorkerHasNoEffect ==
    [][\A w \in Workers : Finishes(w) => player.decode_thread_id = w]_vars

\* C3: a device switch in exclusive mode that finds a worker running sets the
\* stop flag and increments the generation id when it releases the old
\* handle, and a worker pushes only into the handle that was installed when
\* it was started, never into the handle a switch created afterwards.
C3_SwitchRetiresWorker ==
    [][/\ (cmd.pc = "s194" /\ cmd'.pc # "s194" /\ \E w \in Workers : Live(w)) =>
             /\ player'.decode_thread_stop
             /\ player'.decode_thread_id = player.decode_thread_id + 1
       /\ \A w \in Workers :
             Pushes(w) => player.wasapi_player = worker[w].born]_vars

\* C4: under fair scheduling a running worker whose generation id is stale
\* terminates (by its own flag tests: no handler step waits for a worker).
C4_StaleWorkerTerminates ==
    \A w \in Workers :
        (Live(w) /\ player.decode_thread_id # w) ~> (worker[w].pc = "done")

C4_Witness ==
    \E w \in Workers :
        /\ worker[w].pc = "done"
        /\ worker[w].why = "stale"
        /\ player.decode_thread_id # w

\* C5: command handlers, decode workers and the device actor never deadlock:
\* every nested acquisition of sink, target_volume, current_path,
\* exclusive_mode, wasapi_player, the actor-state lock and the ring-buffer lock
\* follows one order (so the acquisition order has no cycle), wasapi_player is
\* held only inside its critical sections, and every waiting thread waits for
\* a thread that can go on.
C5_NoDeadlock ==
    /\ \A t \in Threads : \A chain \in LockChains(t) :
          \A i \in 1..(Len(chain) - 1) :
              LockRank[chain[i]] < LockRank[chain[i + 1]]
    /\ wasapi_lock # Free =>
          wasapi_lock \in Threads /\ HoldsWasapi(wasapi_lock)
    /\ \A t \in Threads : HoldsWasapi(t) => wasapi_lock = t
    /\ \A t \in Threads : CanProceed(t, {t})

C5_Witness ==
    /\ \E w \in Workers : WorkerWaits(w) = "lock"
    /\ wasapi_lock = CmdThread
    /\ CmdWaits = "room"

\* C6: the samples of a session reach the device in the order in which the
\* decoder produced them and the worker pushed them, and none is written
\* twice: every device write continues each session above the highest index
\* written before, and what waits in the ring buffer is in order above that.
C6_DeviceOrder ==
    /\ log.in_order
    /\ InOrder(handle.sample_buffer, log.written)

WriteFails ==
    /\ actor.is_playing /\ ~actor'.is_playing
    /\ handle.is_running
    /\ handle'.id = handle.id
    /\ handle'.command_q = handle.command_q

\* C23: a device write failure stops playback without killing the actor:
\* after the failed write is_playing is false and the shared state is
\* Stopped, the actor is still in its command loop, and a Start or Resume
\* that reaches it afterwards is processed (unless its handle is dropped).
C23_WriteFailureKeepsActor ==
    /\ [][WriteFails => /\ actor'.pc = "loop"
                        /\ handle'.state = "Stopped"
                        /\ log'.write = "failed"]_vars
    /\ [](log.write = "failed" => actor.pc = "loop" \/ ~handle.is_running)
    /\ (log.write = "failed" /\ (Receives("Start") \/ Receives("Resume")))
          ~> (log.write = "restarted" \/ ~handle.is_running)

\* the actor is playing again after a failed write
C23_Witness ==
    /\ log.write = "restarted"
    /\ actor.is_playing
    /\ actor.pc = "loop"

\* C35: the state of the handle is that of the actor: whenever the command
\* queue is empty and the actor is in its loop between two commands,
\* get_state() is Playing exactly when the actor's is_playing is true, also
\* after a Start or Resume whose start_stream failed.
C35_StateIsActorState ==
    (/\ player.wasapi_player # 0
     /\ handle.is_running
     /\ actor.pc = "loop"
     /\ handle.command_q = << >>)
        => (handle.state = "Playing" <=> actor.is_playing)

\* C36: the end of the stream always completes: a worker that has read the
\* whole stream, the last chunk a full one, and is at the head of its loop
\* eventually sends Stop and emits track-ended, unless a newer session or a
\* device switch retires it first.
C36_EndOfStreamCompletes ==
    \A w \in Workers :
        (worker[w].pc = "top" /\ worker[w].pos = StreamLen)
            ~> (worker[w].why = "ended" \/ Stale(w) \/ player.wasapi_player = 0)

\* playback.rs:972-983, exclusive.rs:153-155  what is_track_finished returns
\* in exclusive mode when it is called now: true without a handle or when the
\* state of the handle is Stopped, false when wasapi_player is locked
is_track_finished ==
    /\ player.exclusive_mode
    /\ wasapi_lock = Free
    /\ player.wasapi_player = 0 \/ handle.state = "Stopped"

\* the worker of the current session has played the track to its end: it
\* saw the ring buffer empty after the last chunk and sent Stop
PlayedToEnd ==
    /\ player.decode_thread_id \in Workers
    /\ worker[player.decode_thread_id].why = "ended"

\* C38: in exclusive mode is_track_finished() returns true only when there
\* is no device handle or the track of the current session has played to its
\* end: not after the device was initialized and before a track was started,
\* and not while a play or seek replaces the session.
C38_FinishedOnlyAtEnd ==
    (cmd.pc = "idle" /\ is_track_finished)
        => (player.wasapi_player = 0 \/ PlayedToEnd)

\* the actor takes command c off its queue and goes on
Processes(c) ==
    /\ Receives(c)
    /\ actor'.pc = "loop"
    /\ handle'.id = handle.id
    /\ handle'.command_q = Tail(handle.command_q)

\* C19: responses match Initialize commands one to one: the actor answers
\* every Initialize it processes with exactly one Initialized or InitFailed
\* and answers no other command, so the only response ever waiting is the one
\* for the initialize() that is blocked on it, and that initialize() (whose
\* actor is alive) gets it.
C19_OneResponsePerInitialize ==
    /\ [][/\ Processes("Initialize") =>
                \E r \in {"Initialized", "InitFailed"} :
                    handle'.response_q = Append(handle.response_q, r)
          /\ (\E c \in AudioCommand \ {"Initialize"} : Processes(c)) =>
                handle'.response_q = handle.response_q
          /\ (handle'.id = handle.id
                /\ Len(handle'.response_q) > Len(handle.response_q)) =>
                Processes("Initialize")]_vars
    /\ [](handle.response_q # << >> =>
            /\ Len(handle.response_q) = 1
            /\ cmd.pc = "s201"
            /\ handle.command_q = << >>)
    /\ (cmd.pc = "s201") ~> (cmd.pc \in {"s205", "s213j"})

\* initialize() is blocked on a handle whose actor has answered InitFailed
C19_Witness ==
    /\ cmd.pc = "s201" /\ handle.response_q = <<"InitFailed">>
    /\ actor.pc = "loop" /\ ~actor.audio_client

\* C37: the Stop that play_track_exclusive queues for the previous session
\* never removes a sample of the new session: while no worker has sent a Stop
\* of its own (every Stop in the queue is one of play_track_exclusive), the
\* ring buffer that the actor clears on Stop holds no sample pushed by the
\* worker of the current session.
C37_StopSparesNewSession ==
    [][(Processes("Stop") /\ \A w \in Workers : worker[w].why # "ended") =>
          \A i \in 1..Len(handle.sample_buffer) :
              handle.sample_buffer[i][1] # player.decode_thread_id]_vars

\* the command thread is inside Drop for WasapiExclusivePlayback: is_running
\* is cleared and it waits to send Shutdown or to join the actor
InDrop == cmd.pc \in {"s196w", "s196j", "s213j"}

\* C40: Drop for WasapiExclusivePlayback always returns: whatever the actor
\* is doing and whatever the command queue holds, a full queue included, the
\* send of Shutdown and the join of the actor end.
C40_DropTerminates == InDrop ~> ~InDrop

\* Drop waits to send Shutdown on a full queue while the actor is in its
\* loop and a worker is live
C40_Witness ==
    /\ cmd.pc = "s196w"
    /\ Len(handle.command_q) = CmdQueueCap
    /\ actor.pc = "loop"
    /\ \E w \in Workers : Live(w)

C6_Witness ==
    /\ log.written[1] = StreamLen
    /\ log.in_order

(***************************************************************************)
(* Specifications                                                          *)
(***************************************************************************)
DecIdle == DecInit /\ stream = << >>
SrcIdle == SrcInit
SysIdle == SysInit

InitDecoder == DecInit /\ SrcIdle /\ SysIdle
SpecDecoder == InitDecoder /\ [][DecNextStep]_vars
InitPrefill ==
    /\ stream \in Streams \cup FailingStreams \cup LateErrorStreams
    /\ DecStart /\ SrcInit /\ SysInit
SpecPrefill == InitPrefill /\ [][PrefillStep]_vars
InitBuffer == DecIdle /\ SrcInit /\ SysInit
SpecBuffer == InitBuffer /\ [][BufferStep]_vars
InitNegotiate == DecIdle /\ SrcInit /\ SysInit
SpecNegotiate == InitNegotiate /\ [][NegotiateStep]_vars
InitConvert == DecIdle /\ SrcInit /\ SysInit
SpecConvert == InitConvert /\ [][ConvertStep]_vars
InitControl == DecIdle /\ SrcInit /\ SysInit
SpecControl == InitControl /\ [][ControlStep]_vars
InitMode == DecIdle /\ SrcInit /\ SysInit
SpecMode == InitMode /\ [][ModeStep]_vars
InitEq == DecIdle /\ SrcInit /\ SysInit
SpecEq == InitEq /\ [][EqStep]_vars
InitEqCommands == DecIdle /\ SrcInit /\ SysInit
SpecEqCommands == InitEqCommands /\ [][EqCommandStep]_vars
InitVis == DecIdle /\ SrcInit /\ SysInit
SpecVis == InitVis /\ [][VisStep]_vars
InitGen == DecIdle /\ SrcInit /\ SysInit
SpecGen == InitGen /\ [][GenStep]_vars
InitRing == DecIdle /\ SrcInit /\ SysInit
SpecRing == InitRing /\ [][RingStep]_vars
InitOutput == DecIdle /\ SrcInit /\ SysInit
SpecOutput == InitOutput /\ [][OutputStep]_vars
InitPipeline == DecInit /\ SrcInit /\ SysInit
SpecPipeline == InitPipeline /\ [][PipelineStep]_vars

InitSource == SrcInit /\ DecIdle /\ SysIdle
SpecSource == InitSource /\ [][SrcNextStep]_vars
FairSource == SpecSource /\ WF_vars(ThreadStep)

Init == SysInit /\ DecIdle /\ SrcIdle
Spec == Init /\ [][Next]_vars

\* Every thread that can take a step is scheduled again: the operating system
\* runs the workers and the actor, and a handler that was started runs on.
Fairness ==
    /\ \A w \in Workers : WF_vars(WorkerStep(w))
    /\ WF_vars(ActorStep)
    /\ WF_vars(HandlerStep)

FairSpec == Spec /\ Fairness

====
